---- MODULE Spec2Model ----
(***************************************************************************)
(* Verification model of the form-validation rule catalog                  *)
(* (src/validation/validators.ts, validators-with-translation.ts and       *)
(* utils.ts).  A rule is built by one of the catalog's operations from a   *)
(* kind and constraint parameters, and is then evaluated by the schema     *)
(* library against a field value and the sibling values of the form.       *)
(***************************************************************************)
EXTENDS Integers, Sequences, FiniteSets, TLC

(***************************************************************************)
(* Bounds of the model.                                                    *)
(***************************************************************************)
\* numbers of the model range over -1 .. MaxNumber
MaxNumber == 3
\* length bounds handed to the length rules range over 0 .. MaxLength,
\* and the test strings have lengths 0 .. MaxLength + 1
MaxLength == 2

(***************************************************************************)
(* JavaScript values.  Every value is a record of the same shape, so that  *)
(* values of different types can be compared:                              *)
(*   t  the type tag, n  the number (or the epoch day of a Date),          *)
(*   s  the characters of a string (or of an array's String() form),       *)
(*   b  the boolean.                                                       *)
(***************************************************************************)
Undefined == [t |-> "undefined", n |-> 0, s |-> <<>>, b |-> FALSE]
Null == [t |-> "null", n |-> 0, s |-> <<>>, b |-> FALSE]
NaN == [t |-> "nan", n |-> 0, s |-> <<>>, b |-> FALSE]
InvalidDate == [t |-> "invaliddate", n |-> 0, s |-> <<>>, b |-> FALSE]
Bool(x) == [t |-> "boolean", n |-> 0, s |-> <<>>, b |-> x]
Num(x) == [t |-> "number", n |-> x, s |-> <<>>, b |-> FALSE]
Str(x) == [t |-> "string", n |-> 0, s |-> x, b |-> FALSE]
Arr(x) == [t |-> "array", n |-> 0, s |-> x, b |-> FALSE]
DateObj(x) == [t |-> "date", n |-> x, s |-> <<>>, b |-> FALSE]

\* the characters of the model's strings, in code-unit order
Alphabet == <<" ", "-", ".", "0", "1", "2", "3", "4", "5", "6", "7", "8",
              "9", "@", "D", "I", "N", "a", "b", "c", "d", "e", "f", "i",
              "l", "m", "n", "r", "s", "t", "u", "v", "x">>
Digits == <<"0", "1", "2", "3", "4", "5", "6", "7", "8", "9">>

CharCode(c) == CHOOSE i \in 1..Len(Alphabet) : Alphabet[i] = c
IsDigit(c) == \E i \in 1..Len(Digits) : Digits[i] = c
DigitVal(c) == (CHOOSE i \in 1..Len(Digits) : Digits[i] = c) - 1
AllDigits(s) == \A i \in 1..Len(s) : IsDigit(s[i])

RECURSIVE DigitsToInt(_)
DigitsToInt(s) ==
  IF s = <<>> THEN 0
  ELSE 10 * DigitsToInt(SubSeq(s, 1, Len(s) - 1)) + DigitVal(s[Len(s)])

RECURSIVE NatToStr(_)
NatToStr(k) ==
  IF k < 10 THEN <<Digits[k + 1]>>
  ELSE NatToStr(k \div 10) \o <<Digits[(k % 10) + 1]>>

\* String(n) of an integer
IntToStr(k) == IF k < 0 THEN <<"-">> \o NatToStr(0 - k) ELSE NatToStr(k)

\* ToNumber of a string without white space: "" is 0, an optionally signed
\* run of digits is its value, everything else is NaN
StringToNumber(s) ==
  IF s = <<>> THEN Num(0)
  ELSE IF AllDigits(s) THEN Num(DigitsToInt(s))
  ELSE IF Len(s) > 1 /\ s[1] = "-" /\ AllDigits(Tail(s))
    THEN Num(0 - DigitsToInt(Tail(s)))
  ELSE NaN

\* the length of Date.prototype.toString(): "Thu Feb 29 2024 00:00:00 GMT+0000"
\* followed by an optional time-zone name
DateToStringChars == [i \in 1..33 |-> "x"]

\* String(value)
ToStr(v) ==
  CASE v.t = "undefined" -> <<"u", "n", "d", "e", "f", "i", "n", "e", "d">>
    [] v.t = "null" -> <<"n", "u", "l", "l">>
    [] v.t = "nan" -> <<"N", "a", "N">>
    [] v.t = "boolean" -> IF v.b THEN <<"t", "r", "u", "e">>
                                 ELSE <<"f", "a", "l", "s", "e">>
    [] v.t = "number" -> IntToStr(v.n)
    [] v.t = "string" -> v.s
    [] v.t = "array" -> v.s
    [] v.t = "date" -> DateToStringChars
    [] v.t = "invaliddate" ->
         <<"I", "n", "v", "a", "l", "i", "d", " ", "D", "a", "t", "e">>

\* ToNumber(value)
ToNumber(v) ==
  CASE v.t = "undefined" -> NaN
    [] v.t = "null" -> Num(0)
    [] v.t = "nan" -> NaN
    [] v.t = "boolean" -> Num(IF v.b THEN 1 ELSE 0)
    [] v.t = "number" -> v
    [] v.t = "string" -> StringToNumber(v.s)
    [] v.t = "array" -> StringToNumber(v.s)
    [] v.t = "date" -> Num(v.n)
    [] v.t = "invaliddate" -> NaN

\* a === b.  Objects (arrays, dates) are equal only to themselves; the model
\* never hands the same object to both sides.
StrictEquals(a, b) ==
  /\ a.t = b.t
  /\ a.t \in {"undefined", "null", "boolean", "number", "string"}
  /\ a = b

\* Array.prototype.includes compares with SameValueZero: NaN equals NaN
SameValueZero(a, b) == StrictEquals(a, b) \/ (a.t = "nan" /\ b.t = "nan")

\* lexicographic a < b on code units
RECURSIVE StrLess(_, _)
StrLess(a, b) ==
  IF b = <<>> THEN FALSE
  ELSE IF a = <<>> THEN TRUE
  ELSE IF a[1] # b[1] THEN CharCode(a[1]) < CharCode(b[1])
  ELSE StrLess(Tail(a), Tail(b))

IsStringLike(v) == v.t \in {"string", "array"}

\* a < b (abstract relational comparison; FALSE when one side is NaN)
JsLess(a, b) ==
  IF IsStringLike(a) /\ IsStringLike(b) THEN StrLess(a.s, b.s)
  ELSE LET x == ToNumber(a)
           y == ToNumber(b)
       IN x.t = "number" /\ y.t = "number" /\ x.n < y.n

\* a > b
JsGreater(a, b) == JsLess(b, a)

\* a <= b
JsLessEq(a, b) ==
  IF IsStringLike(a) /\ IsStringLike(b) THEN ~StrLess(b.s, a.s)
  ELSE LET x == ToNumber(a)
           y == ToNumber(b)
       IN x.t = "number" /\ y.t = "number" /\ x.n <= y.n

\* truthiness of a value
Truthy(v) ==
  CASE v.t \in {"undefined", "null", "nan"} -> FALSE
    [] v.t = "boolean" -> v.b
    [] v.t = "number" -> v.n # 0
    [] v.t = "string" -> v.s # <<>>
    [] OTHER -> TRUE


(***************************************************************************)
(* Calendar arithmetic behind Date.                                        *)
(***************************************************************************)
IsLeapYear(y) == (y % 4 = 0 /\ y % 100 # 0) \/ y % 400 = 0

DaysInMonth(y, m) ==
  IF m = 2 THEN (IF IsLeapYear(y) THEN 29 ELSE 28)
  ELSE IF m \in {4, 6, 9, 11} THEN 30
  ELSE 31

RECURSIVE DaysBeforeMonth(_, _)
DaysBeforeMonth(y, m) ==
  IF m <= 1 THEN 0 ELSE DaysBeforeMonth(y, m - 1) + DaysInMonth(y, m - 1)

\* days from 1970-01-01 to January 1st of year y
DaysBeforeYear(y) ==
  365 * (y - 1970) + ((y - 1969) \div 4) - ((y - 1901) \div 100)
    + ((y - 1601) \div 400)

\* the day number of year y, month m, day d, with the month and the day
\* carried over as the Date constructor carries them
EpochDay(y, m, d) ==
  LET yy == y + ((m - 1) \div 12)
      mm == ((m - 1) % 12) + 1
  IN DaysBeforeYear(yy) + DaysBeforeMonth(yy, mm) + d - 1

\* a parsed Date of the date rule: valid = FALSE is the Invalid Date
NoDate == [valid |-> FALSE, y |-> 0, m |-> 0, d |-> 0]
Ymd(y, m, d) == [valid |-> TRUE, y |-> y, m |-> m, d |-> d]

\* the ECMAScript date-only form YYYY-MM-DD, month 01-12 and day 01-31
IsIsoDateOnly(s) ==
  /\ Len(s) = 10
  /\ s[5] = "-" /\ s[8] = "-"
  /\ \A i \in {1, 2, 3, 4, 6, 7, 9, 10} : IsDigit(s[i])
  /\ DigitsToInt(SubSeq(s, 6, 7)) \in 1..12
  /\ DigitsToInt(SubSeq(s, 9, 10)) \in 1..31

HasDigit(s) == \E i \in 1..Len(s) : IsDigit(s[i])

\* the JavaScript engines the program runs on differ in how Date parses a
\* string outside the date-time format, and a day the month does not have:
\* "lenient" carries the day over or guesses a date, "strict" answers
\* Invalid Date.  "none" stands where no Date is parsed.
Engines == {"lenient", "strict"}

\* new Date(value) for a string value
NewDate(s, engine) ==
  IF IsIsoDateOnly(s)
  THEN LET y == DigitsToInt(SubSeq(s, 1, 4))
           m == DigitsToInt(SubSeq(s, 6, 7))
           d == DigitsToInt(SubSeq(s, 9, 10))
       IN IF d <= DaysInMonth(y, m) THEN Ymd(y, m, d)
          ELSE IF engine = "lenient" THEN Ymd(y, m + 1, d - DaysInMonth(y, m))
          ELSE NoDate
  ELSE IF engine = "lenient" /\ HasDigit(s) THEN Ymd(2001, 1, 1)
  ELSE NoDate

Pad(s, k) == [i \in 1..(k - Len(s)) |-> "0"] \o s

\* date.toISOString().split("T")[0]
ToISODate(date) ==
  Pad(NatToStr(date.y), 4) \o <<"-">> \o Pad(NatToStr(date.m), 2)
    \o <<"-">> \o Pad(NatToStr(date.d), 2)

\* date.toISOString(): a RangeError on an Invalid Date
ToISOString(date) ==
  IF date.valid THEN [thrown |-> "", s |-> ToISODate(date)]
  ELSE [thrown |-> "RangeError", s |-> <<>>]

(***************************************************************************)
(* Messages.  A message is the text (a default English sentence, or the    *)
(* key handed to the translate function) with its interpolation            *)
(* parameters.                                                             *)
(***************************************************************************)
Msg(text, a, b, ref) == [text |-> text, a |-> a, b |-> b, ref |-> ref]
Text(text) == Msg(text, 0, 0, "")

\* translate(key, params): the localized message of a key
Translate(key, a, b, ref) == Msg(key, a, b, ref)

\* the schema library's own default messages
YupNotType == Text("yup.mixed.notType")
YupNotNull == Text("yup.mixed.notNull")
YupEmail == Text("yup.string.email")

(***************************************************************************)
(* The form.                                                               *)
(***************************************************************************)
\* the path of the field the rule is bound to
FieldPath == "field"
SiblingFields == {"role", "status", "minAge"}

\* this.parent[name]: a field the form does not hold reads undefined
Sibling(parent, name) ==
  IF name \in DOMAIN parent THEN parent[name] ELSE Undefined

(***************************************************************************)
(* The schema library: a schema is a record of its type, its flags, its    *)
(* messages and its tests; "thrown" holds the error of a failed            *)
(* construction ("" when the schema was built).                            *)
(***************************************************************************)
NoLimit == [given |-> FALSE, n |-> 0]
Limit(n) == [given |-> TRUE, n |-> n]

\* a test of a schema: the callback fn with the values it closes over
TestOf(name, fn, msg, skipAbsent, a, b, ref, conds, limit) ==
  [name |-> name, fn |-> fn, msg |-> msg, skipAbsent |-> skipAbsent,
   a |-> a, b |-> b, ref |-> ref, conds |-> conds, limit |-> limit]

NewSchema(type) ==
  [thrown |-> "", type |-> type, nullable |-> FALSE, nullMsg |-> YupNotNull,
   defined |-> FALSE, definedMsg |-> Text(""), typeErrorMsg |-> YupNotType,
   oneOfRef |-> "", oneOfMsg |-> Text(""), tests |-> <<>>]

Thrown(error) == [NewSchema("none") EXCEPT !.thrown = error]

\* schema.test(name, message, fn)
AddTest(schema, test) ==
  IF schema.thrown # "" THEN schema
  ELSE [schema EXCEPT !.tests = Append(@, test)]

\* schema.nullable()
Nullable(schema) ==
  IF schema.thrown # "" THEN schema
  ELSE [schema EXCEPT !.nullable = TRUE]

\* schema.nonNullable()
NonNullable(schema) ==
  IF schema.thrown # "" THEN schema
  ELSE [schema EXCEPT !.nullable = FALSE, !.nullMsg = YupNotNull]

\* schema.typeError(message)
TypeError(schema, msg) ==
  IF schema.thrown # "" THEN schema
  ELSE [schema EXCEPT !.typeErrorMsg = msg]

\* required(message) without the string schema's emptiness test
RequiredOfMixed(schema, msg) ==
  IF schema.thrown # "" THEN schema
  ELSE [schema EXCEPT !.nullable = FALSE, !.nullMsg = msg,
                      !.defined = TRUE, !.definedMsg = msg]

\* schema.required(message): not undefined, not null and, for a string
\* schema, not the empty string
Required(schema, msg) ==
  IF schema.thrown # "" THEN schema
  ELSE LET s1 == [schema EXCEPT !.nullable = FALSE, !.nullMsg = msg,
                                !.defined = TRUE, !.definedMsg = msg]
       IN IF schema.type = "string"
          THEN [s1 EXCEPT !.tests = Append(@,
                  TestOf("required", "yupRequired", msg, TRUE, 0, 0, "",
                         <<>>, NoLimit))]
          ELSE s1

\* schema.oneOf([yup.ref(ref)], message)
OneOfRef(schema, ref, msg) ==
  IF schema.thrown # "" THEN schema
  ELSE [schema EXCEPT !.oneOfRef = ref, !.oneOfMsg = msg]

\* schema.matches(regex, message): a method of the string schema only; on
\* any other schema the call is a TypeError (matches is not a function)
Matches(schema, fn, msg) ==
  IF schema.thrown # "" THEN schema
  ELSE IF schema.type # "string" THEN Thrown("TypeError")
  ELSE [schema EXCEPT !.tests = Append(@,
          TestOf("matches", fn, msg, TRUE, 0, 0, "", <<>>, NoLimit))]

Kinds == {"string", "number", "email", "array", "date", "boolean"}
\* a kind outside ValidatorType, as untyped callers can pass it
UnknownKind == "object"

\* getValidationMethod with a default kind in place of the throw
GetValidationMethodDefaulting(type) ==
  CASE type = "string" -> NewSchema("string")
    [] type = "number" -> NewSchema("number")
    [] type = "array" -> NewSchema("array")
    [] type = "email" ->
         AddTest(NewSchema("string"),
                 TestOf("email", "yupEmail", YupEmail, TRUE, 0, 0, "", <<>>,
                        NoLimit))
    [] type = "date" -> NewSchema("date")
    [] type = "boolean" -> NewSchema("boolean")
    [] OTHER -> NewSchema("string")

\* getValidationMethod(type)
GetValidationMethod(type) ==
  CASE type = "string" -> NewSchema("string")
    [] type = "number" -> NewSchema("number")
    [] type = "array" -> NewSchema("array")
    [] type = "email" ->
         AddTest(NewSchema("string"),
                 TestOf("email", "yupEmail", YupEmail, TRUE, 0, 0, "", <<>>,
                        NoLimit))
    [] type = "date" -> NewSchema("date")
    [] type = "boolean" -> NewSchema("boolean")
    [] OTHER -> Thrown("Unsupported type")

(***************************************************************************)
(* Casting and type checks of the schema library.                          *)
(***************************************************************************)
IsAbsent(v) == v.t \in {"undefined", "null"}

\* the check of each schema type
TypeCheck(type, v) ==
  CASE type = "string" -> v.t = "string"
    [] type = "number" -> v.t = "number"
    [] type = "boolean" -> v.t = "boolean"
    [] type = "array" -> v.t = "array"
    [] type = "date" -> v.t = "date"
    [] OTHER -> FALSE

\* the schema library's own date parser: YYYY, YYYY-MM, YYYYMM, YYYY-MM-DD
\* and YYYYMMDD are read field by field (a month or day out of range is
\* carried over); every other string goes to Date.parse
YupIsoShape(s) ==
  \/ Len(s) = 4 /\ AllDigits(s)
  \/ Len(s) = 6 /\ AllDigits(s)
  \/ Len(s) = 8 /\ AllDigits(s)
  \/ Len(s) = 7 /\ s[5] = "-" /\ AllDigits(SubSeq(s, 1, 4))
       /\ AllDigits(SubSeq(s, 6, 7))
  \/ Len(s) = 10 /\ s[5] = "-" /\ s[8] = "-" /\ AllDigits(SubSeq(s, 1, 4))
       /\ AllDigits(SubSeq(s, 6, 7)) /\ AllDigits(SubSeq(s, 9, 10))

YupParseIsoDate(s, engine) ==
  IF YupIsoShape(s)
  THEN LET digits == SelectSeq(s, IsDigit)
           y == DigitsToInt(SubSeq(digits, 1, 4))
           m == IF Len(digits) >= 6 THEN DigitsToInt(SubSeq(digits, 5, 6))
                ELSE 1
           d0 == IF Len(digits) >= 8 THEN DigitsToInt(SubSeq(digits, 7, 8))
                 ELSE 1
           d == IF d0 = 0 THEN 1 ELSE d0
       IN DateObj(EpochDay(y, m, d))
  ELSE IF engine = "lenient" /\ HasDigit(s) THEN DateObj(EpochDay(2001, 1, 1))
  ELSE InvalidDate

\* the transform each schema type applies before its checks; undefined is
\* never transformed
Cast(type, v, engine) ==
  IF v.t = "undefined" THEN v
  ELSE CASE type = "string" ->
              IF v.t \in {"string", "array", "null"} THEN v ELSE Str(ToStr(v))
         [] type = "number" ->
              IF v.t = "string"
              THEN LET parsed == SelectSeq(v.s, LAMBDA c : c # " ")
                   IN IF parsed = <<>> THEN NaN ELSE StringToNumber(parsed)
              ELSE IF v.t \in {"number", "null"} THEN v
              ELSE NaN
         [] type = "boolean" ->
              IF v.t = "boolean" THEN v
              ELSE IF ToStr(v) \in {<<"t", "r", "u", "e">>, <<"1">>}
                THEN Bool(TRUE)
              ELSE IF ToStr(v) \in {<<"f", "a", "l", "s", "e">>, <<"0">>}
                THEN Bool(FALSE)
              ELSE v
         [] type = "date" ->
              IF v.t \in {"date", "null"} THEN v
              ELSE IF v.t = "string" THEN YupParseIsoDate(v.s, engine)
              ELSE IF v.t = "number" THEN YupParseIsoDate(IntToStr(v.n), engine)
              ELSE InvalidDate
         [] OTHER -> v

IsAlnum(c) == c \notin {" ", "-", ".", "@"}

\* the domain of an e-mail address: labels of letters, digits and hyphens
\* that begin and end with a letter or digit, joined by dots
EmailDomainOk(d) ==
  /\ d # <<>>
  /\ IsAlnum(d[1]) /\ IsAlnum(d[Len(d)])
  /\ \A i \in 1..Len(d) :
       /\ d[i] \notin {"@", " "}
       /\ (d[i] = "." => IsAlnum(d[i - 1]) /\ IsAlnum(d[i + 1]))

\* string().email(): the empty string passes, any other string must be
\* local@domain
YupEmailTest(s) ==
  \/ s = <<>>
  \/ \E p \in 2..(Len(s) - 1) :
       /\ s[p] = "@"
       /\ \A i \in 1..(p - 1) : s[i] \notin {"@", " "}
       /\ EmailDomainOk(SubSeq(s, p + 1, Len(s)))

(***************************************************************************)
(* Outcomes of an evaluation.                                              *)
(***************************************************************************)
Valid == [valid |-> TRUE, message |-> Text(""), path |-> "", check |-> ""]
Invalid(msg, path, check) ==
  [valid |-> FALSE, message |-> msg, path |-> path, check |-> check]

\* a callback threw: the evaluation rejects with the error instead of
\* returning an outcome
Raised(error) == Invalid(Text(error), "", "raised")

\* a test callback that returns a boolean: false is reported with the
\* message the test was declared with, at the field's path
FromBoolean(ok, test) ==
  IF ok THEN Valid ELSE Invalid(test.msg, FieldPath, test.name)

\* this.createError({ path, message })
CreateError(msg, path, test) == Invalid(msg, path, test.name)

\* conditions.some(...) in place of conditions.every(...)
ConditionsHoldSome(conds, parent) ==
  \E i \in 1..Len(conds) :
    StrictEquals(Sibling(parent, conds[i].fieldName), conds[i].expectedValue)

\* conditions.every(c => this.parent[c.fieldName] === c.expectedValue)
ConditionsHold(conds, parent) ==
  \A i \in 1..Len(conds) :
    StrictEquals(Sibling(parent, conds[i].fieldName), conds[i].expectedValue)

(***************************************************************************)
(* The test callbacks of validators.ts (default messages).                 *)
(***************************************************************************)
\* requiredNullValue: the "non-empty" test
NonEmptyTest(test, value, parent) ==
  LET isValueNull == value.t = "undefined" \/ value.t = "null"
                       \/ StrictEquals(value, Str(<<>>))
  IN IF isValueNull
     THEN CreateError(Text("This field is required."), FieldPath, test)
     ELSE Valid

\* requiredWithReferenceValidator: the "required-with-reference" test
RequiredWithReferenceTest(test, value, parent) ==
  LET isFieldRequired == ConditionsHold(test.conds, parent)
      isValueProvided == value.t # "undefined" /\ value.t # "null"
                           /\ ~StrictEquals(value, Str(<<>>))
  IN IF isFieldRequired /\ ~isValueProvided
     THEN CreateError(Text("This field is required."), FieldPath, test)
     ELSE Valid

\* minValidator, minWithReferenceValidator: the "min" test
MinTest(test, value, parent) ==
  IF value.t = "undefined" \/ value.t = "null" THEN FromBoolean(FALSE, test)
  ELSE FromBoolean(Len(ToStr(value)) >= test.a, test)

\* maxValidator: the "max" test
MaxTest(test, value, parent) ==
  IF value.t = "undefined" \/ value.t = "null" THEN FromBoolean(FALSE, test)
  ELSE FromBoolean(Len(ToStr(value)) <= test.a, test)

\* the length test with the upper bound taken as exclusive
MinMaxTestExclusive(test, value, parent) ==
  IF value.t = "undefined" \/ value.t = "null" THEN FromBoolean(FALSE, test)
  ELSE LET validatorLength == Len(ToStr(value))
       IN FromBoolean(validatorLength >= test.a /\ validatorLength < test.b,
                      test)

\* minMaxValidator: the "max" test
MinMaxTest(test, value, parent) ==
  IF value.t = "undefined" \/ value.t = "null" THEN FromBoolean(FALSE, test)
  ELSE LET validatorLength == Len(ToStr(value))
       IN FromBoolean(validatorLength >= test.a /\ validatorLength <= test.b,
                      test)

\* booleanValidator: the "is-true" test
IsTrueTest(test, value, parent) ==
  FromBoolean(StrictEquals(value, Bool(TRUE)), test)

\* the range test with the upper end taken as exclusive
MinMaxValueTestExclusive(test, value, parent) ==
  LET shouldValidation == ConditionsHold(test.conds, parent)
      numValue == ToNumber(value)
  IN IF shouldValidation
     THEN FromBoolean(numValue.t = "number" /\ numValue.n >= test.a
                        /\ numValue.n < test.b, test)
     ELSE Valid

\* minMaxValueNumberWithReferenceValidator: "min-value-with-reference"
MinMaxValueTest(test, value, parent) ==
  LET shouldValidation == ConditionsHold(test.conds, parent)
      numValue == ToNumber(value)
  IN IF shouldValidation
     THEN FromBoolean(numValue.t = "number" /\ numValue.n >= test.a
                        /\ numValue.n <= test.b, test)
     ELSE Valid

\* minValueNumberWithReferenceValidator: "min-value-with-reference"
MinValueTest(test, value, parent) ==
  LET shouldValidation == ConditionsHold(test.conds, parent)
      numValue == ToNumber(value)
  IN IF shouldValidation
     THEN FromBoolean(numValue.t = "number" /\ numValue.n >= test.a, test)
     ELSE Valid

\* greaterThenValueWithReferenceValidator: "is-greater-than-ref"
GreaterThanRefTest(test, value, parent) ==
  LET shouldValidate == ConditionsHold(test.conds, parent)
      refValue == Sibling(parent, test.ref)
  IN IF shouldValidate THEN FromBoolean(JsGreater(value, refValue), test)
     ELSE Valid

\* the ceiling test with the reference test placed after it
MaxLimitFirstTest(test, value, parent) ==
  LET shouldValidate == ConditionsHold(test.conds, parent)
      refValue == Sibling(parent, test.ref)
      maxLimit == Num(test.limit.n)
  IN IF ~shouldValidate THEN Valid
     ELSE IF test.limit.given /\ Truthy(maxLimit) /\ JsGreater(value, maxLimit)
       THEN CreateError(Msg("Value must not exceed {maxLimit}.",
                            test.limit.n, 0, ""), FieldPath, test)
     ELSE IF JsLessEq(value, refValue)
       THEN CreateError(Msg("Value must be greater than the value of {ref}.",
                            0, 0, test.ref), FieldPath, test)
     ELSE Valid

\* maxLimitAndgreaterThenValueWithReferenceValidator: "is-greater-than-ref"
MaxLimitGreaterThanRefTest(test, value, parent) ==
  LET shouldValidate == ConditionsHold(test.conds, parent)
      refValue == Sibling(parent, test.ref)
      maxLimit == Num(test.limit.n)
  IN IF ~shouldValidate THEN Valid
     ELSE IF JsLessEq(value, refValue)
       THEN CreateError(Msg("Value must be greater than the value of {ref}.",
                            0, 0, test.ref), FieldPath, test)
     ELSE IF test.limit.given /\ Truthy(maxLimit) /\ JsGreater(value, maxLimit)
       THEN CreateError(Msg("Value must not exceed {maxLimit}.",
                            test.limit.n, 0, ""), FieldPath, test)
     ELSE Valid

\* ^(?<year>[\d]{4})-(?<month>0[1-9]|1[0-2])-(?<day>0[1-9]|[1-2][0-9]|3[0-1])$
MatchesDatePattern(s) ==
  /\ Len(s) = 10
  /\ \A i \in 1..4 : IsDigit(s[i])
  /\ s[5] = "-"
  /\ \/ s[6] = "0" /\ IsDigit(s[7]) /\ s[7] # "0"
     \/ s[6] = "1" /\ s[7] \in {"0", "1", "2"}
  /\ s[8] = "-"
  /\ \/ s[9] = "0" /\ IsDigit(s[10]) /\ s[10] # "0"
     \/ s[9] \in {"1", "2"} /\ IsDigit(s[10])
     \/ s[9] = "3" /\ s[10] \in {"0", "1"}

\* requiredDateValidator: the pattern handed to matches()
DatePatternTest(test, value, parent) ==
  FromBoolean(value.t = "string" /\ MatchesDatePattern(value.s), test)

\* the "valid-date" test with the date re-serialized before it is found valid
ValidDateTestEager(test, value, parent, engine) ==
  IF ~Truthy(value) THEN FromBoolean(FALSE, test)
  ELSE LET date == NewDate(ToStr(value), engine)
           iso == ToISOString(date)
       IN IF iso.thrown # "" THEN Raised(iso.thrown)
          ELSE FromBoolean(date.valid /\ value.t = "string"
                             /\ value.s = iso.s, test)

\* requiredDateValidator: the "valid-date" test
ValidDateTest(test, value, parent, engine) ==
  IF ~Truthy(value) THEN FromBoolean(FALSE, test)
  ELSE LET date == NewDate(ToStr(value), engine)
           isValidDate == date.valid
       IN IF ~isValidDate THEN FromBoolean(FALSE, test)
          ELSE LET iso == ToISOString(date)
               IN IF iso.thrown # "" THEN Raised(iso.thrown)
                  ELSE FromBoolean(value.t = "string" /\ value.s = iso.s,
                                   test)

(***************************************************************************)
(* The test callbacks of validators-with-translation.ts.                    *)
(***************************************************************************)
\* requiredNullValue: the "non-empty" test
NonEmptyTestT(test, value, parent) ==
  LET isValueNull == value.t = "undefined" \/ value.t = "null"
                       \/ StrictEquals(value, Str(<<>>))
  IN IF isValueNull
     THEN CreateError(Translate("validationMessages.required", 0, 0, ""), FieldPath, test)
     ELSE Valid

\* requiredWithReferenceValidator: the "required-with-reference" test
RequiredWithReferenceTestT(test, value, parent) ==
  LET isFieldRequired == ConditionsHold(test.conds, parent)
      isValueProvided == value.t # "undefined" /\ value.t # "null"
                           /\ ~StrictEquals(value, Str(<<>>))
  IN IF isFieldRequired /\ ~isValueProvided
     THEN CreateError(Translate("validationMessages.required", 0, 0, ""), FieldPath, test)
     ELSE Valid

\* the translated "min" test with the bound taken as exclusive
MinTestExclusive(test, value, parent) ==
  IF value.t = "undefined" \/ value.t = "null" THEN FromBoolean(FALSE, test)
  ELSE FromBoolean(Len(ToStr(value)) > test.a, test)

\* minValidator, minWithReferenceValidator: the "min" test
MinTestT(test, value, parent) ==
  IF value.t = "undefined" \/ value.t = "null" THEN FromBoolean(FALSE, test)
  ELSE FromBoolean(Len(ToStr(value)) >= test.a, test)

\* maxValidator: the "max" test
MaxTestT(test, value, parent) ==
  IF value.t = "undefined" \/ value.t = "null" THEN FromBoolean(FALSE, test)
  ELSE FromBoolean(Len(ToStr(value)) <= test.a, test)

\* minMaxValidator: the "max" test
MinMaxTestT(test, value, parent) ==
  IF value.t = "undefined" \/ value.t = "null" THEN FromBoolean(FALSE, test)
  ELSE LET validatorLength == Len(ToStr(value))
       IN FromBoolean(validatorLength >= test.a /\ validatorLength <= test.b,
                      test)

\* booleanValidator: the "is-true" test
IsTrueTestT(test, value, parent) ==
  FromBoolean(StrictEquals(value, Bool(TRUE)), test)

\* minMaxValueNumberWithReferenceValidator: "min-value-with-reference"
MinMaxValueTestT(test, value, parent) ==
  LET shouldValidation == ConditionsHold(test.conds, parent)
      numValue == ToNumber(value)
  IN IF shouldValidation
     THEN FromBoolean(numValue.t = "number" /\ numValue.n >= test.a
                        /\ numValue.n <= test.b, test)
     ELSE Valid

\* minValueNumberWithReferenceValidator: "min-value-with-reference"
MinValueTestT(test, value, parent) ==
  LET shouldValidation == ConditionsHold(test.conds, parent)
      numValue == ToNumber(value)
  IN IF shouldValidation
     THEN FromBoolean(numValue.t = "number" /\ numValue.n >= test.a, test)
     ELSE Valid

\* greaterThenValueWithReferenceValidator: "is-greater-than-ref"
GreaterThanRefTestT(test, value, parent) ==
  LET shouldValidate == ConditionsHold(test.conds, parent)
      refValue == Sibling(parent, test.ref)
  IN IF shouldValidate THEN FromBoolean(JsGreater(value, refValue), test)
     ELSE Valid

\* maxLimitAndgreaterThenValueWithReferenceValidator: "is-greater-than-ref"
MaxLimitGreaterThanRefTestT(test, value, parent) ==
  LET shouldValidate == ConditionsHold(test.conds, parent)
      refValue == Sibling(parent, test.ref)
      maxLimit == Num(test.limit.n)
  IN IF ~shouldValidate THEN Valid
     ELSE IF JsLessEq(value, refValue)
       THEN CreateError(Translate("validationMessages.value.greaterThen",
                                  0, 0, test.ref), FieldPath, test)
     ELSE IF test.limit.given /\ Truthy(maxLimit) /\ JsGreater(value, maxLimit)
       THEN CreateError(Translate("validationMessages.number.maxValue",
                                  test.limit.n, 0, ""), FieldPath, test)
     ELSE Valid

\* requiredDateValidator: the pattern handed to matches()
DatePatternTestT(test, value, parent) ==
  FromBoolean(value.t = "string" /\ MatchesDatePattern(value.s), test)

\* requiredDateValidator: the "valid-date" test
ValidDateTestT(test, value, parent, engine) ==
  IF ~Truthy(value) THEN FromBoolean(FALSE, test)
  ELSE LET date == NewDate(ToStr(value), engine)
           isValidDate == date.valid
       IN IF ~isValidDate THEN FromBoolean(FALSE, test)
          ELSE LET iso == ToISOString(date)
               IN IF iso.thrown # "" THEN Raised(iso.thrown)
                  ELSE FromBoolean(value.t = "string" /\ value.s = iso.s,
                                   test)

(***************************************************************************)
(* Evaluation of a schema against a value and the sibling values.          *)
(***************************************************************************)
\* the callback of a test, by the name the builders gave it
RunTest(test, value, parent, engine) ==
  CASE test.fn = "yupEmail" ->
         FromBoolean(value.t = "string" /\ YupEmailTest(value.s), test)
    [] test.fn = "yupRequired" ->
         FromBoolean(value.t = "string" /\ value.s # <<>>, test)
    [] test.fn = "nonEmptyTest" ->
         NonEmptyTest(test, value, parent)
    [] test.fn = "nonEmptyTestT" ->
         NonEmptyTestT(test, value, parent)
    [] test.fn = "requiredWithReferenceTest" ->
         RequiredWithReferenceTest(test, value, parent)
    [] test.fn = "requiredWithReferenceTestT" ->
         RequiredWithReferenceTestT(test, value, parent)
    [] test.fn = "minTest" ->
         MinTest(test, value, parent)
    [] test.fn = "minTestT" ->
         MinTestT(test, value, parent)
    [] test.fn = "maxTest" ->
         MaxTest(test, value, parent)
    [] test.fn = "maxTestT" ->
         MaxTestT(test, value, parent)
    [] test.fn = "minMaxTest" ->
         MinMaxTest(test, value, parent)
    [] test.fn = "minMaxTestT" ->
         MinMaxTestT(test, value, parent)
    [] test.fn = "isTrueTest" ->
         IsTrueTest(test, value, parent)
    [] test.fn = "isTrueTestT" ->
         IsTrueTestT(test, value, parent)
    [] test.fn = "minMaxValueTest" ->
         MinMaxValueTest(test, value, parent)
    [] test.fn = "minMaxValueTestT" ->
         MinMaxValueTestT(test, value, parent)
    [] test.fn = "minValueTest" ->
         MinValueTest(test, value, parent)
    [] test.fn = "minValueTestT" ->
         MinValueTestT(test, value, parent)
    [] test.fn = "greaterThanRefTest" ->
         GreaterThanRefTest(test, value, parent)
    [] test.fn = "greaterThanRefTestT" ->
         GreaterThanRefTestT(test, value, parent)
    [] test.fn = "maxLimitGreaterThanRefTest" ->
         MaxLimitGreaterThanRefTest(test, value, parent)
    [] test.fn = "maxLimitGreaterThanRefTestT" ->
         MaxLimitGreaterThanRefTestT(test, value, parent)
    [] test.fn = "datePatternTest" ->
         DatePatternTest(test, value, parent)
    [] test.fn = "datePatternTestT" ->
         DatePatternTestT(test, value, parent)
    [] test.fn = "validDateTest" ->
         ValidDateTest(test, value, parent, engine)
    [] test.fn = "validDateTestT" ->
         ValidDateTestT(test, value, parent, engine)
    [] OTHER -> Valid

RECURSIVE RunTests(_, _, _, _, _)
\* the tests in the order they were added; the first failure is the outcome
RunTests(tests, i, value, parent, engine) ==
  IF i > Len(tests) THEN Valid
  ELSE LET test == tests[i]
           out == IF test.skipAbsent /\ IsAbsent(value) THEN Valid
                  ELSE RunTest(test, value, parent, engine)
       IN IF out.valid THEN RunTests(tests, i + 1, value, parent, engine)
          ELSE out

\* schema.validate(value) inside the form: cast, then the type, null,
\* oneOf and undefined checks, then the tests
Validate(schema, raw, parent, engine) ==
  LET value == Cast(schema.type, raw, engine)
  IN IF ~IsAbsent(value) /\ ~TypeCheck(schema.type, value)
       THEN Invalid(schema.typeErrorMsg, FieldPath, "typeError")
     ELSE IF value.t = "null" /\ ~schema.nullable
       THEN Invalid(schema.nullMsg, FieldPath, "nullable")
     ELSE IF schema.oneOfRef # "" /\ ~IsAbsent(value)
             /\ ~SameValueZero(value, Sibling(parent, schema.oneOfRef))
       THEN Invalid(schema.oneOfMsg, FieldPath, "oneOf")
     ELSE IF schema.defined /\ value.t = "undefined"
       THEN Invalid(schema.definedMsg, FieldPath, "optionality")
     ELSE RunTests(schema.tests, 1, value, parent, engine)

(***************************************************************************)
(* The catalog of validators.ts: each operation builds a schema from the   *)
(* kind and its constraint parameters, with fixed English messages.        *)
(***************************************************************************)
requiredValidator(type) ==
  LET validatorType == GetValidationMethod(type)
      required == Text("This field is required.")
      invalid == Text("Invalid format.")
  IN TypeError(Required(NonNullable(validatorType), required), invalid)

requiredNullValue(type) ==
  LET validatorType == GetValidationMethod(type)
      required == Text("This field is required.")
      invalid == Text("Invalid format.")
      test == TestOf("non-empty", "nonEmptyTest", required, FALSE, 0, 0, "",
                     <<>>, NoLimit)
  IN TypeError(Nullable(AddTest(validatorType, test)), invalid)

complexRequiredValidator(type) ==
  LET validatorType == GetValidationMethod(type)
      required == Text("This field is required.")
  IN TypeError(validatorType, required)

requiredWithReferenceValidator(type, conditions) ==
  LET validatorType == GetValidationMethod(type)
      required == Text("This field is required.")
      invalid == Text("Invalid format.")
      test == TestOf("required-with-reference", "requiredWithReferenceTest",
                     required, FALSE, 0, 0, "", conditions, NoLimit)
  IN TypeError(Nullable(AddTest(validatorType, test)), invalid)

minValidator(type, minLength) ==
  LET validatorType == GetValidationMethod(type)
      msg == Msg("Minimum length is {minLength} characters.", minLength, 0, "")
      invalid == Text("Invalid format.")
      test == TestOf("min", "minTest", msg, FALSE, minLength, 0, "", <<>>,
                     NoLimit)
  IN TypeError(AddTest(validatorType, test), invalid)

maxValidator(type, maxLength) ==
  LET validatorType == GetValidationMethod(type)
      msg == Msg("Maximum length is {maxLength} characters.", maxLength, 0, "")
      invalid == Text("Invalid format.")
      test == TestOf("max", "maxTest", msg, FALSE, maxLength, 0, "", <<>>,
                     NoLimit)
  IN TypeError(AddTest(validatorType, test), invalid)

minMaxValidator(type, minLength, maxLength) ==
  LET validatorType == GetValidationMethod(type)
      msg == Msg("Length must be between {minLength} and {maxLength} characters.",
                 minLength, maxLength, "")
      invalid == Text("Invalid format.")
      test == TestOf("max", "minMaxTest", msg, FALSE, minLength, maxLength,
                     "", <<>>, NoLimit)
  IN TypeError(AddTest(validatorType, test), invalid)

minWithReferenceValidator(type, minLength, ref) ==
  LET validatorType == GetValidationMethod(type)
      msg == Msg("Minimum length is {minLength} characters.", minLength, 0, "")
      oneOf == Text("Values must match.")
      required == Text("This field is required.")
      invalid == Text("Invalid format.")
      test == TestOf("min", "minTest", msg, FALSE, minLength, 0, "", <<>>,
                     NoLimit)
  IN TypeError(Required(OneOfRef(AddTest(validatorType, test), ref, oneOf),
                        required), invalid)

\* referenceValidator without the oneOf step
referenceValidatorNoOneOf(type, ref) ==
  LET validatorType == GetValidationMethod(type)
  IN TypeError(Required(validatorType, Text("This field is required.")),
               Text("Invalid format."))

referenceValidator(type, ref) ==
  LET validatorType == GetValidationMethod(type)
      oneOf == Text("Values must match.")
      required == Text("This field is required.")
      invalid == Text("Invalid format.")
  IN TypeError(Required(OneOfRef(validatorType, ref, oneOf), required),
               invalid)

booleanValidator(type) ==
  LET validatorType == GetValidationMethod(type)
      msg == Text("This field must be checked.")
      invalid == Text("Invalid format.")
      test == TestOf("is-true", "isTrueTest", msg, FALSE, 0, 0, "", <<>>,
                     NoLimit)
  IN TypeError(AddTest(validatorType, test), invalid)

minMaxValueNumberWithReferenceValidator(type, minValue, maxValue, conditions) ==
  LET validatorType == GetValidationMethod(type)
      msg == Msg("Value must be between {minValue} and {maxValue}.", minValue,
                 maxValue, "")
      invalid == Text("Invalid format.")
      test == TestOf("min-value-with-reference", "minMaxValueTest", msg,
                     FALSE, minValue, maxValue, "", conditions, NoLimit)
  IN TypeError(AddTest(validatorType, test), invalid)

minValueNumberWithReferenceValidator(type, minValue, conditions) ==
  LET validatorType == GetValidationMethod(type)
      msg == Msg("Value must be at least {minValue}.", minValue, 0, "")
      invalid == Text("Invalid format.")
      test == TestOf("min-value-with-reference", "minValueTest", msg, FALSE,
                     minValue, 0, "", conditions, NoLimit)
  IN TypeError(AddTest(validatorType, test), invalid)

greaterThenValueWithReferenceValidator(type, ref, conditions) ==
  LET validatorType == GetValidationMethod(type)
      msg == Msg("Value must be greater than the value of {ref}.", 0, 0, ref)
      test == TestOf("is-greater-than-ref", "greaterThanRefTest", msg, FALSE,
                     0, 0, ref, conditions, NoLimit)
  IN AddTest(validatorType, test)

maxLimitAndgreaterThenValueWithReferenceValidator(type, ref, conditions, maxLimit) ==
  LET validatorType == GetValidationMethod(type)
      msg == Msg("Value must be greater than the value of {ref}.", 0, 0, ref)
      test == TestOf("is-greater-than-ref", "maxLimitGreaterThanRefTest", msg,
                     FALSE, 0, 0, ref, conditions, maxLimit)
  IN AddTest(validatorType, test)

requiredDateValidator(type) ==
  LET invalidFormatValidationMessage ==
        Text("Date must be in YYYY-MM-DD format.")
      validatorType == GetValidationMethod(type)
      pattern == Matches(NonNullable(validatorType), "datePatternTest",
                         invalidFormatValidationMessage)
      test == TestOf("valid-date", "validDateTest",
                     invalidFormatValidationMessage, FALSE, 0, 0, "", <<>>,
                     NoLimit)
  IN TypeError(AddTest(pattern, test), invalidFormatValidationMessage)

\* formatStrings(str, replaceValues): every placeholder {index} of str is
\* replaced by the empty string
FormatStrings(msg, replaceValues) == [msg EXCEPT !.ref = ""]

(***************************************************************************)
(* The catalog of validators-with-translation.ts: the same operations      *)
(* with the messages taken from the translate function.                    *)
(***************************************************************************)
requiredValidatorT(type) ==
  LET validatorType == GetValidationMethod(type)
      required == Translate("validationMessages.required", 0, 0, "")
      invalid == Translate("validationMessages.invalid_format", 0, 0, "")
  IN TypeError(Required(NonNullable(validatorType), required), invalid)

requiredNullValueT(type) ==
  LET validatorType == GetValidationMethod(type)
      required == Translate("validationMessages.required", 0, 0, "")
      invalid == Translate("validationMessages.invalid_format", 0, 0, "")
      test == TestOf("non-empty", "nonEmptyTestT", required, FALSE, 0, 0, "",
                     <<>>, NoLimit)
  IN TypeError(Nullable(AddTest(validatorType, test)), invalid)

complexRequiredValidatorT(type) ==
  LET validatorType == GetValidationMethod(type)
      required == Translate("validationMessages.required", 0, 0, "")
  IN TypeError(validatorType, required)

requiredWithReferenceValidatorT(type, conditions) ==
  LET validatorType == GetValidationMethod(type)
      required == Translate("validationMessages.required", 0, 0, "")
      invalid == Translate("validationMessages.invalid_format", 0, 0, "")
      test == TestOf("required-with-reference", "requiredWithReferenceTestT",
                     required, FALSE, 0, 0, "", conditions, NoLimit)
  IN TypeError(Nullable(AddTest(validatorType, test)), invalid)

minValidatorT(type, minLength) ==
  LET validatorType == GetValidationMethod(type)
      msg == Translate("validationMessages.string.min", minLength, 0, "")
      invalid == Translate("validationMessages.invalid_format", 0, 0, "")
      test == TestOf("min", "minTestT", msg, FALSE, minLength, 0, "", <<>>,
                     NoLimit)
  IN TypeError(AddTest(validatorType, test), invalid)

maxValidatorT(type, maxLength) ==
  LET validatorType == GetValidationMethod(type)
      msg == Translate("validationMessages.string.max", maxLength, 0, "")
      invalid == Translate("validationMessages.invalid_format", 0, 0, "")
      test == TestOf("max", "maxTestT", msg, FALSE, maxLength, 0, "", <<>>,
                     NoLimit)
  IN TypeError(AddTest(validatorType, test), invalid)

minMaxValidatorT(type, minLength, maxLength) ==
  LET validatorType == GetValidationMethod(type)
      msg == Translate("validationMessages.string.minMax", minLength,
                       maxLength, "")
      invalid == Translate("validationMessages.invalid_format", 0, 0, "")
      test == TestOf("max", "minMaxTestT", msg, FALSE, minLength, maxLength,
                     "", <<>>, NoLimit)
  IN TypeError(AddTest(validatorType, test), invalid)

minWithReferenceValidatorT(type, minLength, ref) ==
  LET validatorType == GetValidationMethod(type)
      msg == Translate("validationMessages.string.min", minLength, 0, "")
      oneOf == Translate("validationMessages.mixed.oneOf", 0, 0, "")
      required == Translate("validationMessages.required", 0, 0, "")
      invalid == Translate("validationMessages.invalid_format", 0, 0, "")
      test == TestOf("min", "minTestT", msg, FALSE, minLength, 0, "", <<>>,
                     NoLimit)
  IN TypeError(Required(OneOfRef(AddTest(validatorType, test), ref, oneOf),
                        required), invalid)

referenceValidatorT(type, ref) ==
  LET validatorType == GetValidationMethod(type)
      oneOf == Translate("validationMessages.mixed.oneOf", 0, 0, "")
      required == Translate("validationMessages.required", 0, 0, "")
      invalid == Translate("validationMessages.invalid_format", 0, 0, "")
  IN TypeError(Required(OneOfRef(validatorType, ref, oneOf), required),
               invalid)

booleanValidatorT(type) ==
  LET validatorType == GetValidationMethod(type)
      msg == Translate("validationMessages.required", 0, 0, "")
      invalid == Translate("validationMessages.invalid_format", 0, 0, "")
      test == TestOf("is-true", "isTrueTestT", msg, FALSE, 0, 0, "", <<>>,
                     NoLimit)
  IN TypeError(AddTest(validatorType, test), invalid)

minMaxValueNumberWithReferenceValidatorT(type, minValue, maxValue, conditions) ==
  LET validatorType == GetValidationMethod(type)
      msg == Translate("validationMessages.number.minMaxValue", minValue,
                       maxValue, "")
      invalid == Translate("validationMessages.invalid_format", 0, 0, "")
      test == TestOf("min-value-with-reference", "minMaxValueTestT", msg,
                     FALSE, minValue, maxValue, "", conditions, NoLimit)
  IN TypeError(AddTest(validatorType, test), invalid)

minValueNumberWithReferenceValidatorT(type, minValue, conditions) ==
  LET validatorType == GetValidationMethod(type)
      msg == Translate("validationMessages.number.minValue", minValue, 0, "")
      invalid == Translate("validationMessages.invalid_format", 0, 0, "")
      test == TestOf("min-value-with-reference", "minValueTestT", msg, FALSE,
                     minValue, 0, "", conditions, NoLimit)
  IN TypeError(AddTest(validatorType, test), invalid)

greaterThenValueWithReferenceValidatorT(type, ref, conditions) ==
  LET validatorType == GetValidationMethod(type)
      msg == Translate("validationMessages.value.greaterThen", 0, 0, ref)
      test == TestOf("is-greater-than-ref", "greaterThanRefTestT", msg, FALSE,
                     0, 0, ref, conditions, NoLimit)
  IN AddTest(validatorType, test)

maxLimitAndgreaterThenValueWithReferenceValidatorT(type, ref, conditions, maxLimit) ==
  LET validatorType == GetValidationMethod(type)
      msg == Translate("validationMessages.value.greaterThen", 0, 0, ref)
      test == TestOf("is-greater-than-ref", "maxLimitGreaterThanRefTestT", msg,
                     FALSE, 0, 0, ref, conditions, maxLimit)
  IN AddTest(validatorType, test)

requiredDateValidatorT(type) ==
  LET invalidFormatValidationMessage ==
        FormatStrings(Translate("validationMessages.invalid_date_format", 0, 0,
                              "{0}"), <<"YYYY-MM-DD">>)
      validatorType == GetValidationMethod(type)
      pattern == Matches(NonNullable(validatorType), "datePatternTestT",
                         invalidFormatValidationMessage)
      test == TestOf("valid-date", "validDateTestT",
                     invalidFormatValidationMessage, FALSE, 0, 0, "", <<>>,
                     NoLimit)
  IN TypeError(AddTest(pattern, test), invalidFormatValidationMessage)

(***************************************************************************)
(* Inputs of the model.                                                    *)
(***************************************************************************)
Paths == {"default", "translated"}
AllKinds == Kinds \cup {UnknownKind}

admin == <<"a", "d", "m", "i", "n">>
user == <<"u", "s", "e", "r">>
true == <<"t", "r", "u", "e">>

Condition(fieldName, expectedValue) ==
  [fieldName |-> fieldName, expectedValue |-> expectedValue]

ConditionLists ==
  { <<>>,
    <<Condition("role", Str(admin))>>,
    <<Condition("role", Str(admin)), Condition("status", Bool(TRUE))>> }

RefFields == {"minAge", "role"}
LengthParams == 0..MaxLength
NumberParams == {0, MaxNumber - 1}
MaxLimits == {NoLimit, Limit(0), Limit(MaxNumber - 1)}

Repeat(c, k) == [i \in 1..k |-> c]

\* the values every rule is evaluated against
BaseValues ==
  {Undefined, Null, NaN, Bool(TRUE), Bool(FALSE), Num(0), Num(1),
   Str(<<>>), Str(true), Str(<<"1">>), Str(<<"a", "@", "b">>), Arr(<<>>),
   DateObj(0), InvalidDate}

LengthValues ==
  {Str(Repeat("a", k)) : k \in 1..(MaxLength + 1)}
    \cup {Num(k) : k \in -1..MaxNumber}

NumberValues ==
  {Num(k) : k \in -1..MaxNumber} \cup {Str(<<"2">>), Str(<<"b">>)}

DateYears == {<<"2", "0", "2", "3">>, <<"2", "0", "2", "4">>,
              <<"1", "9", "0", "0">>, <<"2", "0", "0", "0">>}
DateMonths == {<<"0", "2">>, <<"0", "4">>, <<"1", "2">>, <<"1", "3">>,
               <<"0", "0">>, <<"2">>}
DateDays == {<<"0", "9">>, <<"2", "8">>, <<"2", "9">>, <<"3", "0">>,
             <<"3", "1">>, <<"3", "2">>, <<"0", "0">>, <<"9">>}

DateValues ==
  {Str(y \o <<"-">> \o m \o <<"-">> \o d) :
     y \in DateYears, m \in DateMonths, d \in DateDays}
    \cup {Str(<<"2", "0", "2", "4", "0", "2", "2", "9">>),
          Str(<<"2", "0", "2", "4", "-", "0", "2">>)}

LengthOps == {"minValidator", "maxValidator", "minMaxValidator",
              "minWithReferenceValidator"}
NumberOps == {"minMaxValueNumberWithReferenceValidator",
              "minValueNumberWithReferenceValidator",
              "greaterThenValueWithReferenceValidator",
              "maxLimitAndgreaterThenValueWithReferenceValidator"}

ValuesFor(c) ==
  BaseValues
    \cup (IF c.op \in LengthOps THEN LengthValues ELSE {})
    \cup (IF c.op \in NumberOps THEN NumberValues ELSE {})
    \cup (IF c.op = "requiredDateValidator" THEN DateValues ELSE {})

DefaultParent == [role |-> Str(admin), status |-> Bool(TRUE), minAge |-> Num(1)]

FieldValues(f) ==
  CASE f = "role" -> {Str(admin), Str(user), Undefined}
    [] f = "status" -> {Bool(TRUE), Str(true)}
    [] f = "minAge" -> {Undefined, Num(0), Num(1), Num(MaxNumber),
                        Str(<<"1">>), Str(<<>>), Str(<<"a", "@", "b">>)}

\* the sibling fields a rule reads
ReadFields(c) ==
  {c.conds[i].fieldName : i \in 1..Len(c.conds)}
    \cup (IF c.ref = "" THEN {} ELSE {c.ref})

\* the forms a rule is evaluated in: the fields it reads take every value,
\* the others stay as they are in DefaultParent
ValuesRead(c, f) ==
  IF f \in ReadFields(c) THEN FieldValues(f) ELSE {DefaultParent[f]}

ParentsFor(c) ==
  {[role |-> r, status |-> st, minAge |-> m] :
     r \in ValuesRead(c, "role"), st \in ValuesRead(c, "status"),
     m \in ValuesRead(c, "minAge")}

\* an evaluation parses a Date when the schema casts to a date or the rule
\* is the date rule; only then does the engine matter
EnginesFor(sch, v) ==
  IF (sch.type = "date" /\ v.t \in {"string", "number"})
       \/ (\E i \in 1..Len(sch.tests) : sch.tests[i].name = "valid-date")
  THEN Engines ELSE {"none"}

(***************************************************************************)
(* The state machine: a caller builds a rule with one operation of the     *)
(* catalog, the form layer evaluates it against snapshots of the form,     *)
(* and the rule is dropped.                                                *)
(***************************************************************************)
VARIABLES
  phase,    \* "idle", "built", "failed" (construction threw) or "evaluated"
  call,     \* the operation called and its arguments
  schema,   \* what the operation returned
  form,     \* the snapshot of the last evaluation
  outcome,  \* the outcome of the last evaluation
  previous  \* the outcome of the evaluation before it on the same snapshot

vars == <<phase, call, schema, form, outcome, previous>>

NoCall == [op |-> "none", path |-> "default", type |-> "string", a |-> 0,
           b |-> 0, ref |-> "", conds |-> <<>>, limit |-> NoLimit]
NoForm == [value |-> Undefined, parent |-> DefaultParent, engine |-> "none"]
NoOutcome == [valid |-> FALSE, message |-> Text(""), path |-> "",
              check |-> "none"]

(***************************************************************************)
(* The other parts of the program keep state of their own.  Each part is   *)
(* checked in a specification of its own, in which the parts it does not   *)
(* touch stay idle.                                                        *)
(***************************************************************************)
VARIABLES
  now,          \* Date.now(), and the time the runtime's timers run on
  dMs,          \* debounce: the ms the debounced function was created with
  timer,        \* debounce: the closure's timer (0 is null)
  timers,       \* the runtime's pending timeouts: [id, due, args]
  dCalls,       \* debounce: calls of the debounced function so far
  dLastCall,    \* debounce: the most recent call and the one before it
  dInvocations, \* debounce: the invocations of fn, in order
  tMs,          \* throttle: the ms the throttled function was created with
  lastCall,     \* throttle: the closure's lastCall
  tLog,         \* throttle: the calls of the throttled function, in order
  tInvocations, \* throttle: the invocations of fn, in order
  utilCall,     \* the pure utility being called, with its arguments
  utilResult    \* what it returned

debounceVars == <<dMs, timer, timers, dCalls, dLastCall, dInvocations>>

throttleVars == <<tMs, lastCall, tLog, tInvocations>>

utilVars == <<utilCall, utilResult>>

NoCallYet == [at |-> 0, args |-> "", gap |-> 0]

DebounceIdle ==
  /\ dMs = 0
  /\ timer = 0
  /\ timers = {}
  /\ dCalls = 0
  /\ dLastCall = NoCallYet
  /\ dInvocations = <<>>

ThrottleIdle ==
  /\ tMs = 0
  /\ lastCall = 0
  /\ tLog = <<>>
  /\ tInvocations = <<>>

NoUtilCall == [fn |-> "none"]

UtilIdle ==
  /\ utilCall = NoUtilCall
  /\ utilResult = NoUtilCall

VARIABLES
  window,       \* auth: whether the code runs in a browser (typeof window)
  cookies,      \* auth: the browser's cookie jar, in creation order
  localStorage, \* auth: the browser's local storage, key to text
  authReturn,   \* auth: the last auth call and what it returned
  loggedOut     \* auth: logout() has completed and nothing was set since

authVars == <<window, cookies, localStorage, authReturn, loggedOut>>

NoAuthCall == [fn |-> "none"]

AuthIdle ==
  /\ window = TRUE
  /\ cookies = <<>>
  /\ localStorage = {}
  /\ authReturn = NoAuthCall
  /\ loggedOut = FALSE

VARIABLES
  isLoading,    \* auth slice: state.isLoading
  authUser,     \* auth slice: state.user
  inFlight,     \* auth slice: the dispatched loginThunks not yet settled
  dispatched,   \* auth slice: how many loginThunks were dispatched
  lastAction    \* auth slice: the action the reducer handled last

sliceVars == <<isLoading, authUser, inFlight, dispatched, lastAction>>

NoAction == [type |-> "@@INIT"]

\* initialState of the slice, and no login attempted
SliceIdle ==
  /\ isLoading = FALSE
  /\ authUser = Null
  /\ inFlight = {}
  /\ dispatched = 0
  /\ lastAction = NoAction

VARIABLES
  reqPhase,     \* request: idle, fetching (await fetch), reading (await response.json()) or settled
  reqTimeout,   \* request: the timeout it was called with
  reqSignal,    \* request: whose signal fetch was given, the controller's or the caller's
  reqTimer,     \* request: the timeout it armed: none, armed, cleared or fired
  reqStart,     \* request: the time of the call
  reqOutcome    \* request: how the promise settled

httpVars == <<reqPhase, reqTimeout, reqSignal, reqTimer, reqStart, reqOutcome>>

NoSettlement == [kind |-> "pending"]

HttpIdle ==
  /\ reqPhase = "idle"
  /\ reqTimeout = 0
  /\ reqSignal = "controller"
  /\ reqTimer = "none"
  /\ reqStart = 0
  /\ reqOutcome = NoSettlement

VARIABLES
  events,       \* emitter: this.events, the callbacks of each event in order
  handles,      \* emitter: the unsubscribe functions returned and not yet called
  registered,   \* emitter: the registrations made by on() and not unsubscribed, in order
  subscribed,   \* emitter: how many times on() was called
  emitted       \* emitter: the last emit and the callbacks it invoked

emitterVars == <<events, handles, registered, subscribed, emitted>>

EventNames == {"city", "zip"}
NoEmit == [event |-> "none", invoked |-> <<>>]

\* a new FormEventEmitter: events = {}
EmitterIdle ==
  /\ events = [event \in EventNames |-> <<>>]
  /\ handles = {}
  /\ registered = <<>>
  /\ subscribed = 0
  /\ emitted = NoEmit

moreVars == <<authVars, sliceVars, httpVars, emitterVars>>

MoreIdle ==
  /\ AuthIdle
  /\ SliceIdle
  /\ HttpIdle
  /\ EmitterIdle

\* what each part leaves alone
restVars == <<now, debounceVars, throttleVars, utilVars, moreVars>>

debounceRest == <<vars, throttleVars, utilVars, moreVars>>

throttleRest == <<vars, debounceVars, utilVars, moreVars>>

utilRest == <<vars, now, debounceVars, throttleVars, moreVars>>

baseVars == <<vars, now, debounceVars, throttleVars, utilVars>>

authRest == <<baseVars, sliceVars, httpVars, emitterVars>>

sliceRest == <<baseVars, authVars, httpVars, emitterVars>>

httpRest == <<vars, debounceVars, throttleVars, utilVars, authVars, sliceVars, emitterVars>>

emitterRest == <<baseVars, authVars, sliceVars, httpVars>>

allVars == <<vars, restVars>>

ValidatorIdle ==
  /\ phase = "idle"
  /\ call = NoCall
  /\ schema = Thrown("none")
  /\ form = NoForm
  /\ outcome = NoOutcome
  /\ previous = NoOutcome

\* the validation catalog before a rule is built; the clock and the timing
\* utilities play no part in it
Init ==
  /\ ValidatorIdle
  /\ now = 0
  /\ DebounceIdle
  /\ ThrottleIdle
  /\ UtilIdle
  /\ MoreIdle

Construct(c, sch) ==
  /\ phase = "idle"
  /\ call' = c
  /\ schema' = sch
  /\ phase' = IF sch.thrown = "" THEN "built" ELSE "failed"
  /\ UNCHANGED <<form, outcome, previous, restVars>>

\* a caller builds a rule with requiredValidator
Call_requiredValidator ==
  \E path \in Paths, type \in AllKinds :
    Construct([op |-> "requiredValidator", path |-> path,
               type |-> type, a |-> 0, b |-> 0, ref |-> "",
               conds |-> <<>>, limit |-> NoLimit],
              IF path = "default"
              THEN requiredValidator(type)
              ELSE requiredValidatorT(type))

\* a caller builds a rule with requiredNullValue
Call_requiredNullValue ==
  \E path \in Paths, type \in AllKinds :
    Construct([op |-> "requiredNullValue", path |-> path,
               type |-> type, a |-> 0, b |-> 0, ref |-> "",
               conds |-> <<>>, limit |-> NoLimit],
              IF path = "default"
              THEN requiredNullValue(type)
              ELSE requiredNullValueT(type))

\* a caller builds a rule with complexRequiredValidator
Call_complexRequiredValidator ==
  \E path \in Paths, type \in AllKinds :
    Construct([op |-> "complexRequiredValidator", path |-> path,
               type |-> type, a |-> 0, b |-> 0, ref |-> "",
               conds |-> <<>>, limit |-> NoLimit],
              IF path = "default"
              THEN complexRequiredValidator(type)
              ELSE complexRequiredValidatorT(type))

\* a caller builds a rule with requiredWithReferenceValidator
Call_requiredWithReferenceValidator ==
  \E path \in Paths, type \in AllKinds, conds \in ConditionLists :
    Construct([op |-> "requiredWithReferenceValidator", path |-> path,
               type |-> type, a |-> 0, b |-> 0, ref |-> "",
               conds |-> conds, limit |-> NoLimit],
              IF path = "default"
              THEN requiredWithReferenceValidator(type, conds)
              ELSE requiredWithReferenceValidatorT(type, conds))

\* a caller builds a rule with minValidator
Call_minValidator ==
  \E path \in Paths, type \in AllKinds, a \in LengthParams :
    Construct([op |-> "minValidator", path |-> path,
               type |-> type, a |-> a, b |-> 0, ref |-> "",
               conds |-> <<>>, limit |-> NoLimit],
              IF path = "default"
              THEN minValidator(type, a)
              ELSE minValidatorT(type, a))

\* a caller builds a rule with maxValidator
Call_maxValidator ==
  \E path \in Paths, type \in AllKinds, a \in LengthParams :
    Construct([op |-> "maxValidator", path |-> path,
               type |-> type, a |-> a, b |-> 0, ref |-> "",
               conds |-> <<>>, limit |-> NoLimit],
              IF path = "default"
              THEN maxValidator(type, a)
              ELSE maxValidatorT(type, a))

\* a caller builds a rule with minMaxValidator
Call_minMaxValidator ==
  \E path \in Paths, type \in AllKinds, a \in LengthParams, b \in LengthParams :
    Construct([op |-> "minMaxValidator", path |-> path,
               type |-> type, a |-> a, b |-> b, ref |-> "",
               conds |-> <<>>, limit |-> NoLimit],
              IF path = "default"
              THEN minMaxValidator(type, a, b)
              ELSE minMaxValidatorT(type, a, b))

\* a caller builds a rule with minWithReferenceValidator
Call_minWithReferenceValidator ==
  \E path \in Paths, type \in AllKinds, a \in LengthParams, ref \in RefFields :
    Construct([op |-> "minWithReferenceValidator", path |-> path,
               type |-> type, a |-> a, b |-> 0, ref |-> ref,
               conds |-> <<>>, limit |-> NoLimit],
              IF path = "default"
              THEN minWithReferenceValidator(type, a, ref)
              ELSE minWithReferenceValidatorT(type, a, ref))

\* a caller builds a rule with referenceValidator
Call_referenceValidator ==
  \E path \in Paths, type \in AllKinds, ref \in RefFields :
    Construct([op |-> "referenceValidator", path |-> path,
               type |-> type, a |-> 0, b |-> 0, ref |-> ref,
               conds |-> <<>>, limit |-> NoLimit],
              IF path = "default"
              THEN referenceValidator(type, ref)
              ELSE referenceValidatorT(type, ref))

\* a caller builds a rule with booleanValidator
Call_booleanValidator ==
  \E path \in Paths, type \in AllKinds :
    Construct([op |-> "booleanValidator", path |-> path,
               type |-> type, a |-> 0, b |-> 0, ref |-> "",
               conds |-> <<>>, limit |-> NoLimit],
              IF path = "default"
              THEN booleanValidator(type)
              ELSE booleanValidatorT(type))

\* a caller builds a rule with minMaxValueNumberWithReferenceValidator
Call_minMaxValueNumberWithReferenceValidator ==
  \E path \in Paths, type \in AllKinds, a \in NumberParams, b \in NumberParams, conds \in ConditionLists :
    Construct([op |-> "minMaxValueNumberWithReferenceValidator", path |-> path,
               type |-> type, a |-> a, b |-> b, ref |-> "",
               conds |-> conds, limit |-> NoLimit],
              IF path = "default"
              THEN minMaxValueNumberWithReferenceValidator(type, a, b, conds)
              ELSE minMaxValueNumberWithReferenceValidatorT(type, a, b, conds))

\* a caller builds a rule with minValueNumberWithReferenceValidator
Call_minValueNumberWithReferenceValidator ==
  \E path \in Paths, type \in AllKinds, a \in NumberParams, conds \in ConditionLists :
    Construct([op |-> "minValueNumberWithReferenceValidator", path |-> path,
               type |-> type, a |-> a, b |-> 0, ref |-> "",
               conds |-> conds, limit |-> NoLimit],
              IF path = "default"
              THEN minValueNumberWithReferenceValidator(type, a, conds)
              ELSE minValueNumberWithReferenceValidatorT(type, a, conds))

\* a caller builds a rule with greaterThenValueWithReferenceValidator
Call_greaterThenValueWithReferenceValidator ==
  \E path \in Paths, type \in AllKinds, ref \in RefFields, conds \in ConditionLists :
    Construct([op |-> "greaterThenValueWithReferenceValidator", path |-> path,
               type |-> type, a |-> 0, b |-> 0, ref |-> ref,
               conds |-> conds, limit |-> NoLimit],
              IF path = "default"
              THEN greaterThenValueWithReferenceValidator(type, ref, conds)
              ELSE greaterThenValueWithReferenceValidatorT(type, ref, conds))

\* a caller builds a rule with maxLimitAndgreaterThenValueWithReferenceValidator
Call_maxLimitAndgreaterThenValueWithReferenceValidator ==
  \E path \in Paths, type \in AllKinds, ref \in RefFields, conds \in ConditionLists, limit \in MaxLimits :
    Construct([op |-> "maxLimitAndgreaterThenValueWithReferenceValidator", path |-> path,
               type |-> type, a |-> 0, b |-> 0, ref |-> ref,
               conds |-> conds, limit |-> limit],
              IF path = "default"
              THEN maxLimitAndgreaterThenValueWithReferenceValidator(type, ref, conds, limit)
              ELSE maxLimitAndgreaterThenValueWithReferenceValidatorT(type, ref, conds, limit))

\* a caller builds a rule with requiredDateValidator
Call_requiredDateValidator ==
  \E path \in Paths, type \in AllKinds :
    Construct([op |-> "requiredDateValidator", path |-> path,
               type |-> type, a |-> 0, b |-> 0, ref |-> "",
               conds |-> <<>>, limit |-> NoLimit],
              IF path = "default"
              THEN requiredDateValidator(type)
              ELSE requiredDateValidatorT(type))

\* the form layer validates the field against a snapshot of the form
\* an evaluation that uses the rule up: its tests are gone afterwards
EvaluateConsuming ==
  /\ phase = "built"
  /\ \E v \in ValuesFor(call), p \in ParentsFor(call) :
       \E e \in EnginesFor(schema, v) :
         /\ form' = [value |-> v, parent |-> p, engine |-> e]
         /\ outcome' = Validate(schema, v, p, e)
  /\ phase' = "evaluated"
  /\ schema' = [schema EXCEPT !.tests = <<>>]
  /\ UNCHANGED <<call, previous, restVars>>

Evaluate ==
  /\ phase = "built"
  /\ \E v \in ValuesFor(call), p \in ParentsFor(call) :
       \E e \in EnginesFor(schema, v) :
         /\ form' = [value |-> v, parent |-> p, engine |-> e]
         /\ outcome' = Validate(schema, v, p, e)
  /\ phase' = "evaluated"
  /\ UNCHANGED <<call, schema, previous, restVars>>

\* the form layer validates again with nothing changed (a blur after a
\* change, a submit): the same rule against the same snapshot
Reevaluate ==
  /\ phase = "evaluated"
  /\ previous = NoOutcome
  /\ previous' = outcome
  /\ outcome' = Validate(schema, form.value, form.parent, form.engine)
  /\ UNCHANGED <<phase, call, schema, form, restVars>>

\* the form layer has taken the outcome; the rule stays for the next pass
Collect ==
  /\ phase = "evaluated"
  /\ phase' = "built"
  /\ form' = NoForm
  /\ outcome' = NoOutcome
  /\ previous' = NoOutcome
  /\ UNCHANGED <<call, schema, restVars>>

\* the rule (or the failed construction) is dropped
Discard ==
  /\ phase # "idle"
  /\ phase' = "idle"
  /\ call' = NoCall
  /\ schema' = Thrown("none")
  /\ form' = NoForm
  /\ outcome' = NoOutcome
  /\ previous' = NoOutcome
  /\ UNCHANGED restVars

Next ==
  \/ Call_requiredValidator
  \/ Call_requiredNullValue
  \/ Call_complexRequiredValidator
  \/ Call_requiredWithReferenceValidator
  \/ Call_minValidator
  \/ Call_maxValidator
  \/ Call_minMaxValidator
  \/ Call_minWithReferenceValidator
  \/ Call_referenceValidator
  \/ Call_booleanValidator
  \/ Call_minMaxValueNumberWithReferenceValidator
  \/ Call_minValueNumberWithReferenceValidator
  \/ Call_greaterThenValueWithReferenceValidator
  \/ Call_maxLimitAndgreaterThenValueWithReferenceValidator
  \/ Call_requiredDateValidator
  \/ Evaluate
  \/ Reevaluate
  \/ Collect
  \/ Discard

Spec == Init /\ [][Next]_allVars

(***************************************************************************)
(* What the claims speak of, read from the state.                          *)
(***************************************************************************)
Evaluated == phase = "evaluated"

\* the value the tests of the rule see: the field's value after the cast
CastValue == Cast(schema.type, form.value, form.engine)

\* the sibling value at the rule's refField
RefValue == Sibling(form.parent, call.ref)

\* every (fieldName, expectedValue) pair equals the sibling's value and type
AllPairsEqual ==
  \A i \in 1..Len(call.conds) :
    LET c == call.conds[i]
    IN /\ c.fieldName \in DOMAIN form.parent
       /\ form.parent[c.fieldName] = c.expectedValue

\* the value passed the schema's own checks (type, null, e-mail format) and
\* reached the rule's test
ReachedRuleTest == outcome.check \notin {"typeError", "nullable", "email"}

IsOp(op) == phase # "idle" /\ call.op = op

GreaterMessage ==
  IF call.path = "default"
  THEN Msg("Value must be greater than the value of {ref}.", 0, 0, call.ref)
  ELSE Msg("validationMessages.value.greaterThen", 0, 0, call.ref)

CeilingMessage ==
  IF call.path = "default"
  THEN Msg("Value must not exceed {maxLimit}.", call.limit.n, 0, "")
  ELSE Msg("validationMessages.number.maxValue", call.limit.n, 0, "")

RequiredMessage ==
  IF call.path = "default" THEN Text("This field is required.")
  ELSE Text("validationMessages.required")

(***************************************************************************)
(* C1.  A rule built with a kind outside the six supported kinds is never  *)
(* returned: whatever the operation, construction fails with the           *)
(* "Unsupported type" error, so the rule is never evaluated and no default *)
(* kind stands in.                                                         *)
(***************************************************************************)
C1_UnknownKindFailsConstruction ==
  (phase # "idle" /\ call.type \notin Kinds) =>
    /\ phase = "failed"
    /\ schema.thrown = "Unsupported type"
    /\ schema.tests = <<>>
    /\ outcome = NoOutcome

C1_Witness ==
  /\ phase = "failed"
  /\ call.op = "requiredDateValidator"
  /\ call.path = "translated"
  /\ call.type = UnknownKind
  /\ schema.thrown = "Unsupported type"

(***************************************************************************)
(* C2.  The claim: for each of the six supported kinds every operation of  *)
(* the catalog returns a rule (construction fails for an unknown kind      *)
(* only).                                                                  *)
(***************************************************************************)
C2_SupportedKindAlwaysBuilds ==
  (phase # "idle" /\ call.type \in Kinds) =>
    (phase # "failed" /\ schema.thrown = "")

(***************************************************************************)
(* C3.  The claim, for a number field beside a number sibling: with a      *)
(* maxLimit supplied, when all conditions hold the outcome is Valid if and *)
(* only if value > sibling(refField) and value <= maxLimit; when they do   *)
(* not all hold the outcome is Valid.                                      *)
(***************************************************************************)
C3_ValidIffAboveReferenceAndWithinLimit ==
  (/\ Evaluated
   /\ call.op = "maxLimitAndgreaterThenValueWithReferenceValidator"
   /\ call.limit.given
   /\ call.type = "number"
   /\ form.value.t = "number"
   /\ RefValue.t = "number") =>
    IF AllPairsEqual
    THEN outcome.valid <=>
           (form.value.n > RefValue.n /\ form.value.n <= call.limit.n)
    ELSE outcome.valid

(***************************************************************************)
(* C4.  In the rule with a maxLimit, when the conditions hold and the      *)
(* value reaches the rule's test, the reference check comes first: a value *)
(* <= sibling(refField) is reported with the greater-than-reference        *)
(* message even when it also exceeds maxLimit, and the ceiling message is  *)
(* reported only for a value that passed the reference check and exceeds   *)
(* maxLimit.                                                               *)
(***************************************************************************)
C4_ReferenceBeforeCeiling ==
  (/\ Evaluated
   /\ call.op = "maxLimitAndgreaterThenValueWithReferenceValidator"
   /\ ReachedRuleTest) =>
    /\ (AllPairsEqual /\ JsLessEq(CastValue, RefValue)) =>
         (~outcome.valid /\ outcome.message = GreaterMessage)
    /\ (~outcome.valid /\ call.limit.given
          /\ outcome.message = CeilingMessage) =>
         /\ AllPairsEqual
         /\ ~JsLessEq(CastValue, RefValue)
         /\ JsGreater(CastValue, Num(call.limit.n))

C4_Witness ==
  /\ Evaluated
  /\ call.op = "maxLimitAndgreaterThenValueWithReferenceValidator"
  /\ call.limit.given
  /\ Len(call.conds) = 2
  /\ AllPairsEqual
  /\ JsLessEq(CastValue, RefValue)
  /\ JsGreater(CastValue, Num(call.limit.n))
  /\ call.limit.n # 0
  /\ outcome.message = GreaterMessage

(***************************************************************************)
(* What the schema selected by the kind accepts on its own.                *)
(***************************************************************************)
\* the cast value is of the kind's type and, for kind email, a well-formed
\* address (or empty)
OfKind ==
  /\ ~IsAbsent(CastValue)
  /\ TypeCheck(schema.type, CastValue)
  /\ call.type = "email" => YupEmailTest(CastValue.s)

IsEmptyValue(v) == v \in {Undefined, Null, Str(<<>>)}

StringKinds == {"string", "email"}

InvalidFormatMessage ==
  IF call.path = "default" THEN Text("Invalid format.")
  ELSE Text("validationMessages.invalid_format")

(***************************************************************************)
(* C5.  When every condition matches, an undefined, null or empty-string   *)
(* value is Invalid with the required message at the field's own path;     *)
(* when a condition does not match, the rule is Valid for every value.     *)
(***************************************************************************)
C5_RequiredIfEmptyInvalidElseValid ==
  (Evaluated /\ call.op = "requiredWithReferenceValidator") =>
    /\ (AllPairsEqual /\ IsEmptyValue(form.value)) =>
         /\ ~outcome.valid
         /\ outcome.message = RequiredMessage
         /\ outcome.path = FieldPath
    /\ ~AllPairsEqual => outcome.valid

(***************************************************************************)
(* What requiredWithReferenceValidator does: under the kinds string and    *)
(* email it behaves as stated for undefined, null and the empty string;    *)
(* under the other kinds the empty string never reaches the rule's test    *)
(* and is Invalid with the invalid-format message whatever the conditions. *)
(* When a condition does not match, the rule is Valid exactly for          *)
(* undefined, null and the values the kind's schema accepts.               *)
(***************************************************************************)
RequiredIfObserved ==
  (Evaluated /\ call.op = "requiredWithReferenceValidator") =>
    /\ (/\ AllPairsEqual
        /\ \/ form.value \in {Undefined, Null}
           \/ form.value = Str(<<>>) /\ call.type \in StringKinds) =>
         /\ ~outcome.valid
         /\ outcome.message = RequiredMessage
         /\ outcome.path = FieldPath
    /\ (form.value = Str(<<>>) /\ call.type \notin StringKinds) =>
         /\ ~outcome.valid
         /\ outcome.message = InvalidFormatMessage
    /\ ~AllPairsEqual => (outcome.valid <=> (IsAbsent(form.value) \/ OfKind))

\* an optional number field left empty: the condition is unmet, yet Invalid
C5_Witness ==
  /\ Evaluated
  /\ call.op = "requiredWithReferenceValidator"
  /\ call.type = "number"
  /\ Len(call.conds) = 1
  /\ form.parent["role"] = Str(user)
  /\ ~AllPairsEqual
  /\ form.value = Str(<<>>)
  /\ ~outcome.valid
  /\ outcome.message = InvalidFormatMessage

(***************************************************************************)
(* C6.  For every conditional rule, a value that reaches the rule's test   *)
(* is rejected if and only if every (fieldName, expectedValue) pair        *)
(* strictly equals the sibling's value and the constraint is violated; an  *)
(* empty condition list has no pair to fail, so the constraint is applied  *)
(* on every evaluation.                                                    *)
(***************************************************************************)
ConditionalOps ==
  {"requiredWithReferenceValidator",
   "minMaxValueNumberWithReferenceValidator",
   "minValueNumberWithReferenceValidator",
   "greaterThenValueWithReferenceValidator",
   "maxLimitAndgreaterThenValueWithReferenceValidator"}

\* the constraint of each conditional rule, on the value its test sees
ConstraintViolated ==
  LET n == ToNumber(CastValue)
  IN CASE call.op = "requiredWithReferenceValidator" ->
            IsEmptyValue(CastValue)
       [] call.op = "minMaxValueNumberWithReferenceValidator" ->
            ~(n.t = "number" /\ call.a <= n.n /\ n.n <= call.b)
       [] call.op = "minValueNumberWithReferenceValidator" ->
            ~(n.t = "number" /\ call.a <= n.n)
       [] call.op = "greaterThenValueWithReferenceValidator" ->
            ~JsGreater(CastValue, RefValue)
       [] call.op = "maxLimitAndgreaterThenValueWithReferenceValidator" ->
            \/ JsLessEq(CastValue, RefValue)
            \/ /\ call.limit.given
               /\ call.limit.n # 0
               /\ JsGreater(CastValue, Num(call.limit.n))
       [] OTHER -> FALSE

C6_ConstraintAppliedIffAllConditionsMatch ==
  (Evaluated /\ call.op \in ConditionalOps /\ ReachedRuleTest) =>
    (~outcome.valid <=> (AllPairsEqual /\ ConstraintViolated))

C6_Witness ==
  /\ Evaluated
  /\ call.op = "minValueNumberWithReferenceValidator"
  /\ Len(call.conds) = 2
  /\ form.parent["role"] = Str(admin)
  /\ form.parent["status"] = Str(true)
  /\ ReachedRuleTest
  /\ ConstraintViolated
  /\ outcome.valid

(***************************************************************************)
(* C7.  The date rule is Valid exactly for the strings of the form         *)
(* YYYY-MM-DD, month 01-12 and day 01-31, that name a day of the calendar  *)
(* (and so equal their canonical re-serialization).                        *)
(***************************************************************************)
\* s is YYYY-MM-DD in digits and names a day the calendar has
IsCalendarDate(v) ==
  /\ v.t = "string"
  /\ Len(v.s) = 10
  /\ v.s[5] = "-" /\ v.s[8] = "-"
  /\ \A i \in {1, 2, 3, 4, 6, 7, 9, 10} : IsDigit(v.s[i])
  /\ LET y == DigitsToInt(SubSeq(v.s, 1, 4))
         m == DigitsToInt(SubSeq(v.s, 6, 7))
         d == DigitsToInt(SubSeq(v.s, 9, 10))
     IN /\ m \in 1..12
        /\ d \in 1..31
        /\ d <= (IF m = 2
                 THEN (IF y % 400 = 0 \/ (y % 4 = 0 /\ y % 100 # 0)
                       THEN 29 ELSE 28)
                 ELSE IF m \in {4, 6, 9, 11} THEN 30 ELSE 31)

C7_ValidIffCalendarDate ==
  (Evaluated /\ call.op = "requiredDateValidator") =>
    (outcome.valid <=> IsCalendarDate(form.value))

(***************************************************************************)
(* What requiredDateValidator does: built with kind string it is Valid     *)
(* exactly for the strings of the form YYYY-MM-DD that name a day of the   *)
(* calendar, on every engine; built with kind email it is Valid for no     *)
(* value, since no date string is an e-mail address.                       *)
(***************************************************************************)
RequiredDateObserved ==
  (Evaluated /\ call.op = "requiredDateValidator") =>
    (outcome.valid <=> (call.type = "string" /\ IsCalendarDate(form.value)))

\* a real calendar date handed to the date rule of kind email
C7_Witness ==
  /\ Evaluated
  /\ call.op = "requiredDateValidator"
  /\ call.type = "email"
  /\ form.value = Str(<<"2", "0", "2", "4", "-", "0", "2", "-", "2", "9">>)
  /\ ~outcome.valid
  /\ outcome.check = "email"

(***************************************************************************)
(* C8, as stated.  A length rule is Valid if and only if the value is      *)
(* neither undefined nor null and the length of its string representation  *)
(* satisfies the bound(s), both inclusive.                                 *)
(***************************************************************************)
LengthRuleOps == {"minValidator", "maxValidator", "minMaxValidator"}

LengthWithinBounds(len) ==
  CASE call.op = "minValidator" -> len >= call.a
    [] call.op = "maxValidator" -> len <= call.a
    [] call.op = "minMaxValidator" -> call.a <= len /\ len <= call.b
    [] OTHER -> FALSE

C8_LengthOfSuppliedValue ==
  (Evaluated /\ call.op \in LengthRuleOps) =>
    (outcome.valid <=>
       (~IsAbsent(form.value) /\ LengthWithinBounds(Len(ToStr(form.value)))))

(***************************************************************************)
(* C8, amended.  A length rule is Valid if and only if the value is        *)
(* neither undefined nor null, the kind's schema accepts it (its cast is   *)
(* of the kind's type and, for kind email, a well-formed address) and the  *)
(* length of the string representation of the cast value satisfies the     *)
(* bound(s), both inclusive.                                               *)
(***************************************************************************)
C8_LengthRules ==
  (Evaluated /\ call.op \in LengthRuleOps) =>
    (outcome.valid <=>
       (OfKind /\ LengthWithinBounds(Len(ToStr(CastValue)))))

C8_Witness ==
  /\ Evaluated
  /\ call.op = "minMaxValidator"
  /\ call.type = "string"
  /\ call.a < call.b
  /\ form.value.t = "string"
  /\ Len(form.value.s) = call.b
  /\ outcome.valid

(***************************************************************************)
(* C9.  The boolean rule is Valid only when the supplied value is the      *)
(* boolean true (strict identity, no truthy coercion); every other         *)
(* supplied value is Invalid.                                              *)
(***************************************************************************)
C9_ValidOnlyForBooleanTrue ==
  (Evaluated /\ call.op = "booleanValidator") =>
    (outcome.valid => form.value = Bool(TRUE))

(***************************************************************************)
(* What booleanValidator does: it is Valid exactly when it was built with  *)
(* kind boolean and the value is true after the boolean schema's cast,     *)
(* that is when its string form is "true" or "1" (true, 1, "true", "1");   *)
(* every other value, and every value under another kind, is Invalid.      *)
(***************************************************************************)
BooleanMustBeTrueObserved ==
  (Evaluated /\ call.op = "booleanValidator") =>
    (outcome.valid <=>
       (call.type = "boolean" /\ ToStr(form.value) \in {true, <<"1">>}))

\* the string "true" is accepted by the boolean rule of kind boolean
C9_Witness ==
  /\ Evaluated
  /\ call.op = "booleanValidator"
  /\ call.type = "boolean"
  /\ form.value = Str(true)
  /\ outcome.valid

(***************************************************************************)
(* C10, as stated.  The reference rule is Valid exactly when the field's   *)
(* value strictly equals the sibling value at refField, and Invalid on any *)
(* mismatch.                                                               *)
(***************************************************************************)
C10_ValidIffStrictlyEqual ==
  (Evaluated /\ call.op = "referenceValidator") =>
    (outcome.valid <=>
       (form.value.t = RefValue.t /\ form.value = RefValue))

(***************************************************************************)
(* C10, amended.  The reference rule is Valid exactly when the value is    *)
(* not undefined, null or (under the kinds string and email) the empty     *)
(* string, the kind's schema accepts it, and the cast value strictly       *)
(* equals the sibling value at refField; it is Invalid whenever the cast    *)
(* value and the sibling value differ.                                     *)
(***************************************************************************)
C10_MatchesReference ==
  (Evaluated /\ call.op = "referenceValidator") =>
    /\ outcome.valid <=>
         /\ OfKind
         /\ CastValue # Str(<<>>)
         /\ CastValue.t = RefValue.t
         /\ CastValue = RefValue
    /\ CastValue # RefValue => ~outcome.valid

C10_Witness ==
  /\ Evaluated
  /\ call.op = "referenceValidator"
  /\ call.type = "string"
  /\ call.ref = "minAge"
  /\ form.value = Str(<<"a", "@", "b">>)
  /\ RefValue = form.value
  /\ outcome.valid

(***************************************************************************)
(* C11, as stated.  When all conditions hold, the range rule is Valid if   *)
(* and only if min <= Number(value) <= max, both ends inclusive; when a    *)
(* condition does not hold it is Valid for every value.                    *)
(***************************************************************************)
InRange(n) == n.t = "number" /\ call.a <= n.n /\ n.n <= call.b

OfMatchingType(kind, v) ==
  CASE kind = "string" -> v.t = "string" /\ v.s # <<>>
    [] kind = "email" -> v.t = "string" /\ v.s # <<>> /\ YupEmailTest(v.s)
    [] kind = "number" -> v.t = "number"
    [] kind = "boolean" -> v.t = "boolean"
    [] kind = "array" -> v.t = "array"
    [] kind = "date" -> v.t = "date"
    [] OTHER -> FALSE

C12_BaseRuleRejectsEmptyAcceptsTyped ==
  (Evaluated /\ call.op = "requiredValidator") =>
    /\ IsEmptyValue(form.value) => ~outcome.valid
    /\ OfMatchingType(call.type, form.value) => outcome.valid

C12_Witness ==
  /\ Evaluated
  /\ call.op = "requiredValidator"
  /\ call.type = "email"
  /\ form.value = Str(<<>>)
  /\ ~outcome.valid
  /\ outcome.message = RequiredMessage

(***************************************************************************)
(* The rule each catalog builds for a call.                                *)
(***************************************************************************)
DefaultRule(c) ==
  CASE c.op = "requiredValidator" ->
           requiredValidator(c.type)
    [] c.op = "requiredNullValue" ->
           requiredNullValue(c.type)
    [] c.op = "complexRequiredValidator" ->
           complexRequiredValidator(c.type)
    [] c.op = "requiredWithReferenceValidator" ->
           requiredWithReferenceValidator(c.type, c.conds)
    [] c.op = "minValidator" ->
           minValidator(c.type, c.a)
    [] c.op = "maxValidator" ->
           maxValidator(c.type, c.a)
    [] c.op = "minMaxValidator" ->
           minMaxValidator(c.type, c.a, c.b)
    [] c.op = "minWithReferenceValidator" ->
           minWithReferenceValidator(c.type, c.a, c.ref)
    [] c.op = "referenceValidator" ->
           referenceValidator(c.type, c.ref)
    [] c.op = "booleanValidator" ->
           booleanValidator(c.type)
    [] c.op = "minMaxValueNumberWithReferenceValidator" ->
           minMaxValueNumberWithReferenceValidator(c.type, c.a, c.b, c.conds)
    [] c.op = "minValueNumberWithReferenceValidator" ->
           minValueNumberWithReferenceValidator(c.type, c.a, c.conds)
    [] c.op = "greaterThenValueWithReferenceValidator" ->
           greaterThenValueWithReferenceValidator(c.type, c.ref, c.conds)
    [] c.op = "maxLimitAndgreaterThenValueWithReferenceValidator" ->
           maxLimitAndgreaterThenValueWithReferenceValidator(c.type, c.ref, c.conds, c.limit)
    [] c.op = "requiredDateValidator" ->
           requiredDateValidator(c.type)

TranslatedRule(c) ==
  CASE c.op = "requiredValidator" ->
           requiredValidatorT(c.type)
    [] c.op = "requiredNullValue" ->
           requiredNullValueT(c.type)
    [] c.op = "complexRequiredValidator" ->
           complexRequiredValidatorT(c.type)
    [] c.op = "requiredWithReferenceValidator" ->
           requiredWithReferenceValidatorT(c.type, c.conds)
    [] c.op = "minValidator" ->
           minValidatorT(c.type, c.a)
    [] c.op = "maxValidator" ->
           maxValidatorT(c.type, c.a)
    [] c.op = "minMaxValidator" ->
           minMaxValidatorT(c.type, c.a, c.b)
    [] c.op = "minWithReferenceValidator" ->
           minWithReferenceValidatorT(c.type, c.a, c.ref)
    [] c.op = "referenceValidator" ->
           referenceValidatorT(c.type, c.ref)
    [] c.op = "booleanValidator" ->
           booleanValidatorT(c.type)
    [] c.op = "minMaxValueNumberWithReferenceValidator" ->
           minMaxValueNumberWithReferenceValidatorT(c.type, c.a, c.b, c.conds)
    [] c.op = "minValueNumberWithReferenceValidator" ->
           minValueNumberWithReferenceValidatorT(c.type, c.a, c.conds)
    [] c.op = "greaterThenValueWithReferenceValidator" ->
           greaterThenValueWithReferenceValidatorT(c.type, c.ref, c.conds)
    [] c.op = "maxLimitAndgreaterThenValueWithReferenceValidator" ->
           maxLimitAndgreaterThenValueWithReferenceValidatorT(c.type, c.ref, c.conds, c.limit)
    [] c.op = "requiredDateValidator" ->
           requiredDateValidatorT(c.type)

\* the outcome of the current evaluation under each catalog
DefaultOutcome ==
  Validate(DefaultRule(call), form.value, form.parent, form.engine)

TranslatedOutcome ==
  Validate(TranslatedRule(call), form.value, form.parent, form.engine)

\* two rules with the same checks in the same order
SameChecks(d, t) ==
  /\ d.thrown = t.thrown
  /\ d.type = t.type
  /\ d.nullable = t.nullable
  /\ d.defined = t.defined
  /\ d.oneOfRef = t.oneOfRef
  /\ Len(d.tests) = Len(t.tests)
  /\ \A i \in 1..Len(d.tests) :
       /\ d.tests[i].name = t.tests[i].name
       /\ d.tests[i].skipAbsent = t.tests[i].skipAbsent
       /\ d.tests[i].conds = t.tests[i].conds

(***************************************************************************)
(* C13.  For every operation, kind, constraint parameters and snapshot,    *)
(* the rule built by validators-with-translation and the rule built by     *)
(* validators fail construction together, carry the same checks, and agree *)
(* on Valid/Invalid, on the check that failed and on its path; they differ *)
(* only in the message.                                                    *)
(***************************************************************************)
C13_TranslatedEquivalentToDefault ==
  phase # "idle" =>
    /\ schema = (IF call.path = "default" THEN DefaultRule(call)
                 ELSE TranslatedRule(call))
    /\ SameChecks(DefaultRule(call), TranslatedRule(call))
    /\ Evaluated =>
         /\ outcome = (IF call.path = "default" THEN DefaultOutcome
                       ELSE TranslatedOutcome)
         /\ DefaultOutcome.valid = TranslatedOutcome.valid
         /\ DefaultOutcome.check = TranslatedOutcome.check
         /\ DefaultOutcome.path = TranslatedOutcome.path

C13_Witness ==
  /\ Evaluated
  /\ call.op = "booleanValidator"
  /\ call.path = "translated"
  /\ call.type = "boolean"
  /\ form.value = Bool(FALSE)
  /\ ~outcome.valid
  /\ outcome.check = "is-true"
  /\ DefaultOutcome.check = "is-true"
  /\ DefaultOutcome.message # outcome.message

(***************************************************************************)
(* C14.  Evaluating a rule never raises: every evaluation of every rule of *)
(* the catalog, on every snapshot (absent sibling fields, non-numeric      *)
(* values and unparseable date strings included), ends in Valid or in      *)
(* Invalid with a message; the date rule re-serializes the parsed date     *)
(* only after it was found valid.                                          *)
(***************************************************************************)
C14_EvaluationNeverRaises ==
  Evaluated =>
    /\ outcome.check # "raised"
    /\ outcome.valid \/ outcome.message.text # ""
    /\ outcome.valid => outcome = Valid

\* a date string the strict parser answers Invalid Date for
C14_Witness ==
  /\ Evaluated
  /\ call.op = "requiredDateValidator"
  /\ call.type = "string"
  /\ form.engine = "strict"
  /\ form.value = Str(<<"2", "0", "2", "3", "-", "0", "2", "-", "2", "9">>)
  /\ ~NewDate(form.value.s, form.engine).valid
  /\ ~outcome.valid
  /\ outcome.check = "valid-date"

MaxTime == 5
MaxMs == 2
MaxCalls == 3

\* the arguments a caller passes
CallArgs == {"a", "b"}

\* setTimeout(callback, ms): a pending timeout with a fresh id
SetTimeout(pending, id, ms, args) ==
  pending \cup {[id |-> id, due |-> now + ms, args |-> args]}

\* clearTimeout(id)
ClearTimeout(pending, id) == {t \in pending : t.id # id}

\* debounce(fn, ms): the debounced function is created, nothing is pending
DebounceInit ==
  /\ ValidatorIdle
  /\ ThrottleIdle
  /\ UtilIdle
  /\ MoreIdle
  /\ now = 0
  /\ dMs \in 0..MaxMs
  /\ timer = 0
  /\ timers = {}
  /\ dCalls = 0
  /\ dLastCall = NoCallYet
  /\ dInvocations = <<>>

\* a call of the debounced function that leaves the pending timeout alone
DebouncedNoClear(args) ==
  /\ dCalls < MaxCalls
  /\ now + dMs <= MaxTime
  /\ dCalls' = dCalls + 1
  /\ timers' = SetTimeout(timers, dCalls + 1, dMs, args)
  /\ timer' = dCalls + 1
  /\ dLastCall' = [at |-> now, args |-> args,
                   gap |-> IF dCalls = 0 THEN dMs ELSE now - dLastCall.at]
  /\ UNCHANGED <<debounceRest, now, dMs, dInvocations>>

\* a call of the debounced function: if (timer) clearTimeout(timer);
\* timer = setTimeout(..., ms)
Debounced(args) ==
  /\ dCalls < MaxCalls
  /\ now + dMs <= MaxTime
  /\ dCalls' = dCalls + 1
  /\ timers' = LET cleared == IF timer # 0 THEN ClearTimeout(timers, timer)
                              ELSE timers
               IN SetTimeout(cleared, dCalls + 1, dMs, args)
  /\ timer' = dCalls + 1
  /\ dLastCall' = [at |-> now, args |-> args,
                   gap |-> IF dCalls = 0 THEN dMs ELSE now - dLastCall.at]
  /\ UNCHANGED <<debounceRest, now, dMs, dInvocations>>

DebouncedCall == \E args \in CallArgs : Debounced(args)

\* the timeout's callback: timer = null; fn(...args)
DebounceTimeout ==
  \E t \in timers :
    /\ t.due <= now
    /\ timers' = timers \ {t}
    /\ timer' = 0
    /\ dInvocations' = Append(dInvocations,
                              [at |-> now, args |-> t.args,
                               since |-> now - dLastCall.at,
                               lastArgs |-> dLastCall.args,
                               call |-> dCalls])
    /\ UNCHANGED <<debounceRest, now, dMs, dCalls, dLastCall>>

\* a millisecond passes
DebounceTick ==
  /\ now < MaxTime
  /\ now' = now + 1
  /\ UNCHANGED <<debounceRest, debounceVars>>

DebounceNext ==
  \/ DebouncedCall
  \/ DebounceTimeout
  \/ DebounceTick

\* time passes, and the runtime runs a timeout that is due
DebounceSpec ==
  /\ DebounceInit
  /\ [][DebounceNext]_allVars
  /\ WF_allVars(DebounceTick)
  /\ WF_allVars(DebounceTimeout)

\* fn was invoked no sooner than ms after the most recent call, with that
\* call's arguments, and once for it
DebounceInvocationsOk ==
  /\ \A i \in 1..Len(dInvocations) :
       /\ dInvocations[i].since >= dMs
       /\ dInvocations[i].args = dInvocations[i].lastArgs
  /\ \A i, j \in 1..Len(dInvocations) :
       i # j => dInvocations[i].call # dInvocations[j].call

\* nothing is pending, and the last call, if there was one, was served
DebounceSettled ==
  /\ timers = {}
  /\ dCalls > 0 =>
       /\ dInvocations # <<>>
       /\ dInvocations[Len(dInvocations)].call = dCalls

(***************************************************************************)
(* C16.  fn is never invoked while fewer than ms milliseconds have elapsed *)
(* since the most recent call of the debounced function; every call        *)
(* cancels the invocation pending from the call before, so a burst of      *)
(* calls each less than ms apart yields exactly one invocation, with the   *)
(* arguments of the last call; and that invocation eventually happens once *)
(* calls stop.                                                             *)
(***************************************************************************)
C16_DebounceInvokesOnceAfterQuiet ==
  /\ [](DebounceInvocationsOk /\ Cardinality(timers) <= 1)
  /\ <>[]DebounceSettled

\* a burst of two calls less than ms apart, served by one invocation
C16_Witness ==
  /\ dCalls = 2
  /\ dLastCall.gap < dMs
  /\ Len(dInvocations) = 1
  /\ dInvocations[1].call = 2
  /\ dInvocations[1].args = dLastCall.args
  /\ dInvocations[1].since >= dMs

(***************************************************************************)
(* throttle(fn, ms).  Date.now() counts from the epoch and is far past it: *)
(* the clock starts at a time no smaller than any ms.                      *)
(***************************************************************************)
\* throttle(fn, ms): let lastCall = 0
ThrottleInit ==
  /\ ValidatorIdle
  /\ DebounceIdle
  /\ UtilIdle
  /\ MoreIdle
  /\ now = MaxMs
  /\ tMs \in 0..MaxMs
  /\ lastCall = 0
  /\ tLog = <<>>
  /\ tInvocations = <<>>

\* a call of the throttled function that forgets to note the time
ThrottledNoStamp(args) ==
  /\ Len(tLog) < MaxCalls
  /\ IF now - lastCall >= tMs
     THEN /\ tInvocations' = Append(tInvocations,
                                    [at |-> now, args |-> args,
                                     call |-> Len(tLog) + 1])
          /\ tLog' = Append(tLog, [at |-> now, args |-> args, ran |-> TRUE])
     ELSE /\ tLog' = Append(tLog, [at |-> now, args |-> args, ran |-> FALSE])
          /\ UNCHANGED tInvocations
  /\ UNCHANGED <<throttleRest, now, tMs, lastCall>>

\* a call of the throttled function: const now = Date.now();
\* if (now - lastCall >= ms) { lastCall = now; fn(...args); }
Throttled(args) ==
  /\ Len(tLog) < MaxCalls
  /\ IF now - lastCall >= tMs
     THEN /\ lastCall' = now
          /\ tInvocations' = Append(tInvocations,
                                    [at |-> now, args |-> args,
                                     call |-> Len(tLog) + 1])
          /\ tLog' = Append(tLog, [at |-> now, args |-> args, ran |-> TRUE])
     ELSE /\ tLog' = Append(tLog, [at |-> now, args |-> args, ran |-> FALSE])
          /\ UNCHANGED <<lastCall, tInvocations>>
  /\ UNCHANGED <<throttleRest, now, tMs>>

ThrottledCall == \E args \in CallArgs : Throttled(args)

\* a millisecond passes
ThrottleTick ==
  /\ now < MaxMs + MaxTime
  /\ now' = now + 1
  /\ UNCHANGED <<throttleRest, throttleVars>>

ThrottleNext ==
  \/ ThrottledCall
  \/ ThrottleTick

ThrottleSpec == ThrottleInit /\ [][ThrottleNext]_allVars

\* the invocations made before call k
InvocationsBefore(k) ==
  {i \in 1..Len(tInvocations) : tInvocations[i].call < k}

(***************************************************************************)
(* C17.  Any two invocations of fn are at least ms apart; a call that      *)
(* arrives less than ms after the last invocation is dropped; and a        *)
(* dropped call is not executed later: every invocation is made by a call, *)
(* at the time of that call and with its arguments, once.                  *)
(***************************************************************************)
C17_ThrottleAtMostOncePerInterval ==
  /\ \A i, j \in 1..Len(tInvocations) :
       i < j => tInvocations[j].at - tInvocations[i].at >= tMs
  /\ \A k \in 1..Len(tLog) :
       (\E i \in InvocationsBefore(k) :
          tLog[k].at - tInvocations[i].at < tMs) => ~tLog[k].ran
  /\ \A i \in 1..Len(tInvocations) :
       LET inv == tInvocations[i]
       IN /\ inv.call \in 1..Len(tLog)
          /\ tLog[inv.call].ran
          /\ tLog[inv.call].at = inv.at
          /\ tLog[inv.call].args = inv.args
          /\ \A j \in 1..Len(tInvocations) :
               tInvocations[j].call = inv.call => j = i
  /\ \A k \in 1..Len(tLog) :
       tLog[k].ran <=> \E i \in 1..Len(tInvocations) : tInvocations[i].call = k

\* a call dropped just before the interval is over, and the next one served
C17_Witness ==
  /\ tMs = MaxMs
  /\ Len(tLog) = 3
  /\ tLog[1].ran /\ ~tLog[2].ran /\ tLog[3].ran
  /\ tLog[2].at = tLog[1].at + tMs - 1
  /\ tLog[3].at = tLog[1].at + tMs
  /\ Len(tInvocations) = 2

\* ------------------------------------------------------------------------
\* Query utilities (src/unnamed/part_008): smartParse and sanitizeParams.
\* A plain object is a function from its keys to values, an array a sequence.
\* ------------------------------------------------------------------------

Obj(o) == [t |-> "object", o |-> o]
List(a) == [t |-> "list", a |-> a]
EmptyObject == Obj([k \in {} |-> Undefined])
ThrownTypeError == [t |-> "thrown", error |-> "TypeError"]

\* String.prototype.trim over the blank of the alphabet
Trim(s) == LET idx == {i \in 1..Len(s) : s[i] # " "} IN IF idx = {} THEN <<>> ELSE SubSeq(s, CHOOSE i \in idx : \A j \in idx : i <= j, CHOOSE i \in idx : \A j \in idx : i >= j)

UpperCase == <<"D", "I", "N">>
LowerCase == <<"d", "i", "n">>
ToLowerCase(s) == [i \in 1..Len(s) |-> IF \E j \in 1..Len(UpperCase) : UpperCase[j] = s[i] THEN LowerCase[CHOOSE j \in 1..Len(UpperCase) : UpperCase[j] = s[i]] ELSE s[i]]

\* JSON.parse on the texts of the model: literals, a quoted string, the empty
\* array and the empty object, with blanks around them; anything else throws
JsonParse(s) ==
  LET text == Trim(s) IN
  CASE text = <<"n", "u", "l", "l">> -> [thrown |-> FALSE, v |-> Null]
    [] text = <<"t", "r", "u", "e">> -> [thrown |-> FALSE, v |-> Bool(TRUE)]
    [] text = <<"f", "a", "l", "s", "e">> -> [thrown |-> FALSE, v |-> Bool(FALSE)]
    [] text = <<"[", "]">> -> [thrown |-> FALSE, v |-> List(<<>>)]
    [] text = <<"{", "}">> -> [thrown |-> FALSE, v |-> EmptyObject]
    [] Len(text) >= 2 /\ text[1] = "\"" /\ text[Len(text)] = "\"" /\ (\A i \in 2..(Len(text) - 1) : text[i] # "\"") -> [thrown |-> FALSE, v |-> Str(SubSeq(text, 2, Len(text) - 1))]
    [] OTHER -> [thrown |-> TRUE, v |-> Undefined]

valueMap(key) ==
  CASE key = <<"n", "u", "l", "l">> -> Null
    [] key = <<"u", "n", "d", "e", "f", "i", "n", "e", "d">> -> Undefined
    [] key = <<"t", "r", "u", "e">> -> Bool(TRUE)
    [] key = <<"f", "a", "l", "s", "e">> -> Bool(FALSE)
    [] OTHER -> NaN

smartParse(value) ==
  LET lowerValue == ToLowerCase(value)
      numberValue == StringToNumber(Trim(value))
      parsed == JsonParse(value)
  IN IF valueMap(lowerValue) # NaN THEN valueMap(lowerValue)
     ELSE IF numberValue.t = "number" THEN numberValue
     ELSE IF parsed.thrown THEN Str(value) ELSE parsed.v

IndexKeys == <<"0", "1", "2", "3", "4", "5", "6", "7", "8", "9">>
IsObjectType(v) == v.t \in {"object", "list", "null"}
ObjectKeys(v) == IF v.t = "object" THEN DOMAIN v.o ELSE IF v.t = "list" THEN {IndexKeys[i] : i \in 1..Len(v.a)} ELSE {}
GetKey(v, key) == IF v.t = "object" THEN v.o[key] ELSE v.a[CHOOSE i \in 1..Len(v.a) : IndexKeys[i] = key]

\* {...value}: the own enumerable properties of an object, an array or a
\* string; nothing for the other primitives, null and undefined
Spread(v) ==
  CASE v.t = "object" -> v.o
    [] v.t = "list" -> [key \in ObjectKeys(v) |-> GetKey(v, key)]
    [] v.t = "string" -> [key \in {IndexKeys[i] : i \in 1..Len(v.s)} |-> Str(<<v.s[CHOOSE i \in 1..Len(v.s) : IndexKeys[i] = key]>>)]
    [] OTHER -> [key \in {} |-> Undefined]

Includes(list, key) == \E i \in 1..Len(list) : list[i] = key

RECURSIVE sanitizeParams(_, _, _, _, _)
sanitizeParams(query, currentQuery, keysToDelete, keysExcludeFromFilter, enableStringConversion) ==
  IF query.t \in {"null", "undefined"} THEN ThrownTypeError
  ELSE
    LET sanitizedQuery == Spread(currentQuery)
        hasKeysToDelete == Len(keysToDelete) > 0
        Step(key) ==
          LET raw == GetKey(query, key) IN
          IF raw.t = "string" /\ Trim(raw.s) = <<>> THEN [act |-> "delete", v |-> Undefined]
          ELSE IF raw.t \in {"null", "undefined"} THEN [act |-> "delete", v |-> Undefined]
          ELSE
            LET value == IF enableStringConversion /\ raw.t = "string" THEN smartParse(raw.s) ELSE raw IN
            IF value.t = "list"
            THEN LET items == [i \in 1..Len(value.a) |-> IF IsObjectType(value.a[i]) THEN sanitizeParams(value.a[i], Undefined, keysToDelete, keysExcludeFromFilter, enableStringConversion) ELSE value.a[i]]
                 IN IF \E i \in 1..Len(items) : items[i] = ThrownTypeError THEN [act |-> "throw", v |-> Undefined] ELSE [act |-> "set", v |-> List(items)]
            ELSE IF IsObjectType(value)
            THEN LET nestedObj == sanitizeParams(value, IF key \in DOMAIN sanitizedQuery THEN sanitizedQuery[key] ELSE Undefined, keysToDelete, keysExcludeFromFilter, enableStringConversion)
                 IN IF nestedObj = ThrownTypeError THEN [act |-> "throw", v |-> Undefined]
                    ELSE IF ObjectKeys(nestedObj) # {} THEN [act |-> "set", v |-> nestedObj]
                    ELSE [act |-> "keep", v |-> Undefined]
            ELSE IF hasKeysToDelete /\ Includes(keysToDelete, key) THEN [act |-> "delete", v |-> Undefined]
            ELSE [act |-> "set", v |-> IF value.t = "string" THEN Str(Trim(value.s)) ELSE value]
        keys == ObjectKeys(query)
        assigned == {key \in keys : Step(key).act = "set"}
        deleted == {key \in keys : Step(key).act = "delete"}
    IN IF \E key \in keys : Step(key).act = "throw" THEN ThrownTypeError
       ELSE Obj([key \in (DOMAIN sanitizedQuery \ deleted) \cup assigned |-> IF key \in assigned THEN Step(key).v ELSE sanitizedQuery[key]])

\* ------------------------------------------------------------------------
\* combineClasses (src/unnamed/part_008). A Set is a sequence without
\* duplicates in insertion order.
\* ------------------------------------------------------------------------

StartsWith(s, prefix) == Len(prefix) <= Len(s) /\ SubSeq(s, 1, Len(prefix)) = prefix

RECURSIVE Split(_, _)
Split(s, separator) == IF \A i \in 1..Len(s) : s[i] # separator THEN <<s>> ELSE LET at == CHOOSE i \in 1..Len(s) : s[i] = separator /\ \A j \in 1..(i - 1) : s[j] # separator IN <<SubSeq(s, 1, at - 1)>> \o Split(SubSeq(s, at + 1, Len(s)), separator)

RECURSIVE Join(_, _)
Join(parts, separator) == IF parts = <<>> THEN <<>> ELSE IF Len(parts) = 1 THEN parts[1] ELSE parts[1] \o <<separator>> \o Join(Tail(parts), separator)

RECURSIVE NewSet(_)
NewSet(items) == IF items = <<>> THEN <<>> ELSE LET front == NewSet(SubSeq(items, 1, Len(items) - 1)) IN IF \E i \in 1..Len(front) : front[i] = items[Len(items)] THEN front ELSE Append(front, items[Len(items)])

RemovalPrefix == <<"!", "!">>

combineClassesKeepMarked(defaultClasses, className) ==
  IF className.t = "undefined" \/ className.s = <<>> THEN defaultClasses
  ELSE Join(NewSet(Split(defaultClasses, " ")) \o NewSet(Split(className.s, " ")), " ")

combineClasses(defaultClasses, className) ==
  IF className.t = "undefined" \/ className.s = <<>> THEN defaultClasses
  ELSE
    LET allDefault == NewSet(Split(defaultClasses, " "))
        allCustom == NewSet(Split(className.s, " "))
        IsRemoval(customClass) == StartsWith(customClass, RemovalPrefix)
        defaultKept == SelectSeq(allDefault, LAMBDA defaultClass : ~\E i \in 1..Len(allCustom) : IsRemoval(allCustom[i]) /\ SubSeq(allCustom[i], 3, Len(allCustom[i])) = defaultClass)
        customSet == SelectSeq(allCustom, LAMBDA customClass : ~IsRemoval(customClass))
        defaultSet == SelectSeq(defaultKept, LAMBDA defaultClass : ~\E i \in 1..Len(customSet) : StartsWith(customSet[i], Split(defaultClass, "-")[1]))
    IN Join(defaultSet \o customSet, " ")

\* ------------------------------------------------------------------------
\* The utilities as a machine: a call of sanitizeParams or combineClasses
\* with its arguments, its result, and the return to the caller.
\* ------------------------------------------------------------------------

MaxClasses == 2

QueryKeys == {"page", "q"}
ParamStrings == {<<>>, <<" ">>, <<"a">>, <<" ", "a">>, <<"n", "u", "l", "l">>, <<"u", "n", "d", "e", "f", "i", "n", "e", "d">>, <<"\"", "\"">>}
ParamPrimitives == {Undefined, Null, Num(1)} \cup {Str(s) : s \in ParamStrings}
ParamObjects == {Obj([key \in {"f"} |-> v]) : v \in ParamPrimitives}
ParamLists == {List(<<>>)} \cup {List(<<v>>) : v \in {Null, Str(<<>>), Obj([key \in {"f"} |-> Str(<<>>)]), Obj([key \in {"f"} |-> Str(<<"a">>)])}}
QueryValues == ParamPrimitives \cup ParamObjects \cup ParamLists
Queries == {Obj(o) : o \in UNION {[keys -> QueryValues] : keys \in SUBSET QueryKeys}}
CurrentQueries == {Obj(o) : o \in UNION {[keys -> {Num(1), Obj([key \in {"f"} |-> Str(<<"b">>)])}] : keys \in SUBSET QueryKeys}}
KeysToDelete == {<<>>, <<"q">>}
KeysExcludeFromFilter == {<<"page">>, <<>>}

DefaultTokens == {<<"a", "-", "1">>, <<"a", "b", "-", "2">>, <<"b">>}
CustomTokens == {<<"a", "-", "2">>, <<"a", "b", "-", "1">>, <<"b">>, <<"c">>, <<"!", "!", "a", "-", "1">>, <<"!", "!", "b">>}
ClassLists(tokens) == {Join(list, " ") : list \in UNION {[1..n -> tokens] : n \in 0..MaxClasses}}

Call_sanitizeParams ==
  /\ utilCall = NoUtilCall
  /\ \E query \in Queries, currentQuery \in CurrentQueries, keysToDelete \in KeysToDelete, keysExcludeFromFilter \in KeysExcludeFromFilter, enableStringConversion \in BOOLEAN :
       /\ utilCall' = [fn |-> "sanitizeParams", query |-> query, currentQuery |-> currentQuery, keysToDelete |-> keysToDelete, keysExcludeFromFilter |-> keysExcludeFromFilter, enableStringConversion |-> enableStringConversion]
       /\ utilResult' = [fn |-> "sanitizeParams", v |-> sanitizeParams(query, currentQuery, keysToDelete, keysExcludeFromFilter, enableStringConversion)]
  /\ UNCHANGED utilRest

Call_combineClasses ==
  /\ utilCall = NoUtilCall
  /\ \E defaultClasses \in ClassLists(DefaultTokens), className \in {Undefined} \cup {Str(s) : s \in ClassLists(CustomTokens)} :
       /\ utilCall' = [fn |-> "combineClasses", defaultClasses |-> defaultClasses, className |-> className]
       /\ utilResult' = [fn |-> "combineClasses", v |-> combineClasses(defaultClasses, className)]
  /\ UNCHANGED utilRest

UtilReturn ==
  /\ utilCall # NoUtilCall
  /\ utilCall' = NoUtilCall
  /\ utilResult' = NoUtilCall
  /\ UNCHANGED utilRest

\* String.prototype.replace with a text pattern: the first occurrence only
ReplaceFirst(s, pattern, replacement) ==
  LET at == {i \in 1..(Len(s) - Len(pattern) + 1) : SubSeq(s, i, i + Len(pattern) - 1) = pattern} IN
  IF at = {} THEN s
  ELSE LET first == CHOOSE i \in at : \A j \in at : i <= j IN SubSeq(s, 1, first - 1) \o replacement \o SubSeq(s, first + Len(pattern), Len(s))

Placeholder(index) == <<"{">> \o NatToStr(index) \o <<"}">>

\* formatStrings after the first n entries of replaceValues
RECURSIVE formatStringsUpTo(_, _, _)
formatStringsUpTo(str, replaceValues, n) == IF n = 0 THEN str ELSE ReplaceFirst(formatStringsUpTo(str, replaceValues, n - 1), Placeholder(n - 1), <<>>)

formatStrings(str, replaceValues) == formatStringsUpTo(str, replaceValues, Len(replaceValues))

MaxValues == 2
Templates == {<<"a">>, <<"a", " ", "{", "0", "}", ".">>, <<"{", "0", "}", "{", "1", "}">>, <<"{", "1", "}", "-", "{", "0", "}">>, <<"{", "0", "}", " ", "{", "0", "}">>}
ReplaceTexts == {<<"u">>, <<"Y", "-", "M">>}
ReplaceLists == UNION {[1..n -> ReplaceTexts] : n \in 0..MaxValues}

Call_formatStrings ==
  /\ utilCall = NoUtilCall
  /\ \E str \in Templates, replaceValues \in ReplaceLists :
       /\ utilCall' = [fn |-> "formatStrings", str |-> str, replaceValues |-> replaceValues]
       /\ utilResult' = [fn |-> "formatStrings", v |-> formatStrings(str, replaceValues)]
  /\ UNCHANGED utilRest

UtilNext ==
  \/ Call_sanitizeParams
  \/ Call_combineClasses
  \/ Call_formatStrings
  \/ UtilReturn

UtilSpec == Init /\ [][UtilNext]_allVars

\* ---- sanitizeParams ----

Sanitized == utilCall.fn = "sanitizeParams" /\ utilResult.v # ThrownTypeError

IsEmptyParam(v) == v.t \in {"null", "undefined"} \/ (v.t = "string" /\ Trim(v.s) = <<>>)
ConvertedParam(v, enableStringConversion) == IF enableStringConversion /\ v.t = "string" /\ ~IsEmptyParam(v) THEN smartParse(v.s) ELSE v

\* some key of query, inside objects and the objects of arrays, has an empty
\* value and is a key of the result at the same place
RECURSIVE HasEmptyKey(_, _, _)
HasEmptyKey(query, result, enableStringConversion) ==
  \/ /\ query.t = "object"
     /\ result.t = "object"
     /\ \E key \in ObjectKeys(query) \cap ObjectKeys(result) :
          LET value == ConvertedParam(query.o[key], enableStringConversion) IN
          IsEmptyParam(value) \/ HasEmptyKey(value, result.o[key], enableStringConversion)
  \/ /\ query.t = "list"
     /\ result.t = "list"
     /\ \E i \in 1..Len(query.a) : i <= Len(result.a) /\ HasEmptyKey(query.a[i], result.a[i], enableStringConversion)

\* C18: the result of sanitizeParams has no key of query, at any nesting
\* level of objects and arrays, whose value (after the optional string
\* conversion) is an empty or whitespace-only string, null or undefined,
\* also when currentQuery carried the key before the call.
C18_NoEmptyKeyInResult ==
  Sanitized => ~HasEmptyKey(utilCall.query, utilResult.v, utilCall.enableStringConversion)

\* a stale nested filter: query clears q.f, currentQuery carried q.f = "b",
\* and the result still has q.f = "b"
C18_Witness ==
  /\ Sanitized
  /\ ~utilCall.enableStringConversion
  /\ utilCall.query = Obj([key \in {"q"} |-> Obj([k \in {"f"} |-> Str(<<>>)])])
  /\ utilCall.currentQuery = Obj([key \in {"q"} |-> Obj([k \in {"f"} |-> Str(<<"b">>)])])
  /\ utilResult.v = Obj([key \in {"q"} |-> Obj([k \in {"f"} |-> Str(<<"b">>)])])

\* what the code does at the top level of an object query: a key with an
\* empty value is gone, unless its converted value is undefined or an empty
\* string, or it is an object that sanitizes to nothing while currentQuery
\* carried the key
EmptyKeysObserved ==
  Sanitized =>
    \A key \in ObjectKeys(utilCall.query) :
      LET raw == utilCall.query.o[key] IN
      IsEmptyParam(raw) => key \notin ObjectKeys(utilResult.v)

\* C19: sanitizeParams keeps every key listed in keysExcludeFromFilter, also
\* when its value in query is empty, null or undefined.
C19_ExcludedKeysKept ==
  Sanitized =>
    \A key \in ObjectKeys(utilCall.query) :
      Includes(utilCall.keysExcludeFromFilter, key) => key \in ObjectKeys(utilResult.v)

\* page is excluded from the filter, empty in query, and gone from the result
C19_Witness ==
  /\ Sanitized
  /\ utilCall.keysExcludeFromFilter = <<"page">>
  /\ utilCall.query = Obj([key \in {"page"} |-> Str(<<>>)])
  /\ utilCall.currentQuery = Obj([key \in {"page"} |-> Num(1)])
  /\ utilResult.v = EmptyObject

\* the list of excluded keys has no effect on the result
ExcludeListIgnored ==
  Sanitized =>
    \A other \in KeysExcludeFromFilter :
      utilResult.v = sanitizeParams(utilCall.query, utilCall.currentQuery, utilCall.keysToDelete, other, utilCall.enableStringConversion)

\* ---- combineClasses ----

Combined == utilCall.fn = "combineClasses"

\* the classes of a space-separated list
ClassesOf(s) == {token \in {Split(s, " ")[i] : i \in 1..Len(Split(s, " "))} : token # <<>>}
DefaultClasses == ClassesOf(utilCall.defaultClasses)
GivenClasses == IF utilCall.className.t = "undefined" THEN {} ELSE ClassesOf(utilCall.className.s)
CustomClasses == {c \in GivenClasses : ~StartsWith(c, RemovalPrefix)}
ResultClasses == ClassesOf(utilResult.v)
BaseOf(class) == Split(class, "-")[1]
RemovedExplicitly(defaultClass) == (RemovalPrefix \o defaultClass) \in GivenClasses

\* C20 as stated: a default class is missing from the result only if className
\* removes it with "!!" or has a custom class with the same base (the text
\* before the first "-"); every custom class without "!!" is in the result
\* and no "!!" token is.
C20_MissingOnlyIfSameBase ==
  Combined =>
    /\ \A d \in DefaultClasses : d \notin ResultClasses => (RemovedExplicitly(d) \/ \E c \in CustomClasses : BaseOf(c) = BaseOf(d))
    /\ CustomClasses \subseteq ResultClasses
    /\ \A token \in ResultClasses : ~StartsWith(token, RemovalPrefix)

\* C20 (amended): a default class is in the result exactly when it is also a
\* custom class, or className neither removes it with "!!" nor has a custom
\* class that starts with the default class's base; every custom class
\* without "!!" is in the result and no "!!" token is.
C20_MissingIffOverridden ==
  Combined =>
    /\ \A d \in DefaultClasses : d \in ResultClasses <=> (d \in CustomClasses \/ ~(RemovedExplicitly(d) \/ \E c \in CustomClasses : StartsWith(c, BaseOf(d))))
    /\ CustomClasses \subseteq ResultClasses
    /\ \A token \in ResultClasses : ~StartsWith(token, RemovalPrefix)
    /\ ResultClasses \subseteq DefaultClasses \cup CustomClasses

\* a-1 is dropped by ab-1, whose base is ab, while b is dropped by "!!b"
C20_Witness ==
  /\ Combined
  /\ utilCall.defaultClasses = <<"a", "-", "1", " ", "b">>
  /\ utilCall.className = Str(<<"a", "b", "-", "1", " ", "!", "!", "b">>)
  /\ utilResult.v = <<"a", "b", "-", "1">>

\* ------------------------------------------------------------------------
\* Authentication storage (src/src/features/auth/utils/auth.utils.ts and the
\* local-storage utility of src/unnamed/part_007), against a browser's
\* cookie jar: a cookie is replaced or removed by its name and path.
\* ------------------------------------------------------------------------

Reserved == <<" ", ";", "=", "%">>
Escapes == <<<<"%", "2", "0">>, <<"%", "3", "B">>, <<"%", "3", "D">>, <<"%", "2", "5">>>>

RECURSIVE encodeURIComponent(_)
encodeURIComponent(s) == IF s = <<>> THEN <<>> ELSE (IF \E i \in 1..Len(Reserved) : Reserved[i] = s[1] THEN Escapes[CHOOSE i \in 1..Len(Reserved) : Reserved[i] = s[1]] ELSE <<s[1]>>) \o encodeURIComponent(Tail(s))

\* decodeURIComponent: a "%" that starts no escape raises URIError
RECURSIVE decodeURIComponent(_)
decodeURIComponent(s) ==
  IF s = <<>> THEN [thrown |-> FALSE, s |-> <<>>]
  ELSE IF s[1] # "%" THEN LET rest == decodeURIComponent(Tail(s)) IN [thrown |-> rest.thrown, s |-> <<s[1]>> \o rest.s]
  ELSE IF Len(s) >= 3 /\ \E i \in 1..Len(Escapes) : Escapes[i] = SubSeq(s, 1, 3)
       THEN LET rest == decodeURIComponent(SubSeq(s, 4, Len(s))) IN [thrown |-> rest.thrown, s |-> <<Reserved[CHOOSE i \in 1..Len(Escapes) : Escapes[i] = SubSeq(s, 1, 3)]>> \o rest.s]
       ELSE [thrown |-> TRUE, s |-> <<>>]

EpochExpiry == "Thu, 01 Jan 1970 00:00:00 GMT"
NoOptions == [path |-> "/", expires |-> ""]

\* the cookie that setCookie writes: `name=value; path=...; expires=...`
setCookie(name, value, options) == [name |-> encodeURIComponent(name), value |-> encodeURIComponent(value), path |-> options.path, expires |-> options.expires]

deleteCookie(name, options) == setCookie(name, <<>>, [options EXCEPT !.expires = EpochExpiry])

\* document.cookie = cookieStr: an expiry in the past removes the cookie of
\* that name and path, otherwise the cookie is stored in its place
AssignCookie(jar, cookie) ==
  LET same(c) == c.name = cookie.name /\ c.path = cookie.path IN
  IF cookie.expires = EpochExpiry THEN SelectSeq(jar, LAMBDA c : ~same(c))
  ELSE IF \E i \in 1..Len(jar) : same(jar[i]) THEN [i \in 1..Len(jar) |-> IF same(jar[i]) THEN [jar[i] EXCEPT !.value = cookie.value] ELSE jar[i]]
  ELSE Append(jar, [name |-> cookie.name, value |-> cookie.value, path |-> cookie.path])

\* reading document.cookie: `name=value` pairs joined by "; "
RECURSIVE DocumentCookie(_)
DocumentCookie(jar) == IF jar = <<>> THEN <<>> ELSE jar[1].name \o <<"=">> \o jar[1].value \o (IF Len(jar) = 1 THEN <<>> ELSE <<";", " ">> \o DocumentCookie(Tail(jar)))

\* text.match(new RegExp("(^| )" + name + "=([^;]+)")): its second group at
\* the leftmost match, or no match
MatchCookie(text, name) ==
  LET key == name \o <<"=">>
      starts == {i \in 1..Len(text) : /\ (i = 1 \/ text[i - 1] = " ")
                                      /\ i + Len(key) <= Len(text)
                                      /\ SubSeq(text, i, i + Len(key) - 1) = key
                                      /\ text[i + Len(key)] # ";"}
  IN IF starts = {} THEN [matched |-> FALSE, group |-> <<>>]
     ELSE LET from == (CHOOSE i \in starts : \A j \in starts : i <= j) + Len(key)
              ends == {j \in from..Len(text) : \A k \in from..j : text[k] # ";"}
          IN [matched |-> TRUE, group |-> SubSeq(text, from, CHOOSE j \in ends : \A k \in ends : k <= j)]

getCookie(name, jar, hasWindow) ==
  IF hasWindow
  THEN LET match == MatchCookie(DocumentCookie(jar), encodeURIComponent(name)) IN
       IF match.matched THEN (IF decodeURIComponent(match.group).thrown THEN ThrownTypeError ELSE Str(decodeURIComponent(match.group).s)) ELSE Null
  ELSE Null

TokenName == <<"t", "o", "k", "e", "n">>
UserName == <<"u", "s", "e", "r">>

getToken(jar, hasWindow) == getCookie(TokenName, jar, hasWindow)
getUser(jar, hasWindow) == getCookie(UserName, jar, hasWindow)

\* localStorage.setItem(key, JSON.stringify(data)) and removeItem(key)
store_data(storage, key, data) == {e \in storage : e.key # key} \cup {[key |-> key, item |-> <<"\"">> \o data \o <<"\"">>]}
remove_data(storage, key) == {e \in storage : e.key # key}

logoutTokenOnly(jar, storage) == [cookies |-> AssignCookie(jar, deleteCookie(TokenName, NoOptions)), localStorage |-> remove_data(storage, "userRole")]

logout(jar, storage) == [cookies |-> AssignCookie(AssignCookie(jar, deleteCookie(TokenName, NoOptions)), deleteCookie(UserName, NoOptions)), localStorage |-> remove_data(storage, "userRole")]

AuthTexts == {<<>>, <<"a">>, <<"a", " ", "b">>, <<";", " ", "t", "o", "k", "e", "n", "=", "x">>}
Roles == {<<"a", "d", "m", "i", "n">>, <<"u", "s", "e", "r">>}

AuthInit ==
  /\ ValidatorIdle
  /\ now = 0
  /\ DebounceIdle
  /\ ThrottleIdle
  /\ UtilIdle
  /\ SliceIdle
  /\ HttpIdle
  /\ EmitterIdle
  /\ window \in BOOLEAN
  /\ cookies = <<>>
  /\ localStorage = {}
  /\ authReturn = NoAuthCall
  /\ loggedOut = FALSE

\* on the server setCookie only returns the header text
SetToken ==
  /\ \E token \in AuthTexts : cookies' = IF window THEN AssignCookie(cookies, setCookie(TokenName, token, NoOptions)) ELSE cookies
  /\ authReturn' = [fn |-> "setToken"]
  /\ loggedOut' = FALSE
  /\ UNCHANGED <<window, localStorage, authRest>>

SetUser ==
  /\ \E text \in AuthTexts : cookies' = IF window THEN AssignCookie(cookies, setCookie(UserName, text, NoOptions)) ELSE cookies
  /\ authReturn' = [fn |-> "setUser"]
  /\ loggedOut' = FALSE
  /\ UNCHANGED <<window, localStorage, authRest>>

\* there is no localStorage on the server: the call raises ReferenceError
SetUserRole ==
  /\ \E role \in Roles : localStorage' = IF window THEN store_data(localStorage, "userRole", role) ELSE localStorage
  /\ authReturn' = IF window THEN [fn |-> "setUserRole"] ELSE [fn |-> "setUserRole", thrown |-> "ReferenceError"]
  /\ loggedOut' = FALSE
  /\ UNCHANGED <<window, cookies, authRest>>

\* `held` notes what the caller could read before the call
Logout ==
  /\ cookies' = IF window THEN logout(cookies, localStorage).cookies ELSE cookies
  /\ localStorage' = IF window THEN logout(cookies, localStorage).localStorage ELSE localStorage
  /\ authReturn' = IF window THEN [fn |-> "logout", v |-> Bool(TRUE), held |-> <<getToken(cookies, window), getUser(cookies, window), {e.item : e \in localStorage}>>] ELSE [fn |-> "logout", thrown |-> "ReferenceError"]
  /\ loggedOut' = window
  /\ UNCHANGED <<window, authRest>>

GetToken ==
  /\ authReturn' = [fn |-> "getToken", v |-> getToken(cookies, window)]
  /\ UNCHANGED <<window, cookies, localStorage, loggedOut, authRest>>

GetUser ==
  /\ authReturn' = [fn |-> "getUser", v |-> getUser(cookies, window)]
  /\ UNCHANGED <<window, cookies, localStorage, loggedOut, authRest>>

AuthNext ==
  \/ SetToken
  \/ SetUser
  \/ SetUserRole
  \/ Logout
  \/ GetToken
  \/ GetUser

AuthSpec == AuthInit /\ [][AuthNext]_allVars

\* C21: after logout() has completed, whatever setToken, setUser and
\* setUserRole calls came before it, getToken() and getUser() return null
\* and local storage has no userRole entry.
C21_LogoutClearsAuthData ==
  loggedOut =>
    /\ getToken(cookies, window) = Null
    /\ getUser(cookies, window) = Null
    /\ authReturn.fn \in {"getToken", "getUser"} => authReturn.v = Null
    /\ \A e \in localStorage : e.key # "userRole"

\* a token with reserved characters, a user and a role were readable, and
\* logout has just completed
C21_Witness ==
  /\ loggedOut
  /\ authReturn.fn = "logout"
  /\ authReturn.held = <<Str(<<";", " ", "t", "o", "k", "e", "n", "=", "x">>), Str(<<"a", " ", "b">>), {<<"\"", "a", "d", "m", "i", "n", "\"">>}>>
  /\ cookies = <<>>

\* the calls read back what was set: the claim is about real data
SetThenGet ==
  (authReturn.fn = "getToken" /\ window /\ ~loggedOut /\ authReturn.v # Null) => \E t \in AuthTexts : authReturn.v = Str(t)

\* ---- formatStrings ----

Formatted == utilCall.fn = "formatStrings"

\* translate(`form_fields.${value}`, { defaultValue: value }): only "u" has
\* a translation
TranslationOf(value) == IF value = <<"u">> THEN <<"U">> ELSE value

\* str with the first placeholder of each of the first n indices replaced by
\* the translation of its value
RECURSIVE Substituted(_, _, _)
Substituted(str, replaceValues, n) == IF n = 0 THEN str ELSE ReplaceFirst(Substituted(str, replaceValues, n - 1), Placeholder(n - 1), TranslationOf(replaceValues[n]))

\* C22: formatStrings(str, replaceValues) replaces each placeholder {index}
\* of str by the value at that index of replaceValues (its translation, or
\* the value itself when there is none); so the localized requiredDate
\* message carries its YYYY-MM-DD parameter.
C22_PlaceholdersReplacedByValues ==
  Formatted => utilResult.v = Substituted(utilCall.str, utilCall.replaceValues, Len(utilCall.replaceValues))

\* formatStrings("a {0}.", ["u"]) returns "a ."
C22_Witness ==
  /\ Formatted
  /\ utilCall.str = <<"a", " ", "{", "0", "}", ".">>
  /\ utilCall.replaceValues = <<<<"u">>>>
  /\ utilResult.v = <<"a", " ", ".">>

\* what the code does: the first placeholder of each index is deleted
PlaceholdersDeleted ==
  Formatted =>
    /\ utilResult.v = formatStringsUpTo(utilCall.str, utilCall.replaceValues, Len(utilCall.replaceValues))
    /\ Len(utilResult.v) <= Len(utilCall.str)
    /\ (\E i \in 1..Len(utilCall.replaceValues) : ReplaceFirst(utilCall.str, Placeholder(i - 1), <<>>) # utilCall.str) => utilResult.v # Substituted(utilCall.str, utilCall.replaceValues, Len(utilCall.replaceValues))

\* ------------------------------------------------------------------------
\* The auth slice (src/src/features/auth/redux/authSlice.ts) under
\* loginThunk (src/src/features/auth/hooks/useLogin.ts): handleLogin
\* dispatches a thunk, whose pending action is reduced at once and whose
\* fulfilled or rejected action is reduced when the request settles.
\* ------------------------------------------------------------------------

MaxLogins == 3
Credentials == {"ann", "bob"}

\* the reducers of extraReducers
authReducer(state, action) ==
  CASE action.type = "auth/login/pending" -> [state EXCEPT !.isLoading = TRUE]
    [] action.type = "auth/login/fulfilled" -> [isLoading |-> FALSE, user |-> action.payload]
    [] action.type = "auth/login/rejected" -> [state EXCEPT !.isLoading = FALSE]
    [] OTHER -> state

Reduce(action) ==
  /\ isLoading' = authReducer([isLoading |-> isLoading, user |-> authUser], action).isLoading
  /\ authUser' = authReducer([isLoading |-> isLoading, user |-> authUser], action).user
  /\ lastAction' = action

SliceInit ==
  /\ ValidatorIdle
  /\ now = 0
  /\ DebounceIdle
  /\ ThrottleIdle
  /\ UtilIdle
  /\ AuthIdle
  /\ SliceIdle
  /\ HttpIdle
  /\ EmitterIdle

\* handleLogin: dispatch(loginThunk(data)); nothing keeps a second
\* submission from being dispatched while the first is in flight
HandleLogin ==
  /\ dispatched < MaxLogins
  /\ \E credentials \in Credentials :
       /\ inFlight' = inFlight \cup {[requestId |-> dispatched + 1, arg |-> credentials]}
       /\ Reduce([type |-> "auth/login/pending", requestId |-> dispatched + 1])
  /\ dispatched' = dispatched + 1
  /\ UNCHANGED sliceRest

\* readUser resolved: the thunk returns response.data.data
LoginFulfilled ==
  /\ \E request \in inFlight :
       /\ inFlight' = inFlight \ {request}
       /\ Reduce([type |-> "auth/login/fulfilled", requestId |-> request.requestId, payload |-> Str(<<request.arg>>)])
  /\ UNCHANGED <<dispatched, sliceRest>>

\* readUser rejected: the thunk returns rejectWithValue(error.message)
LoginRejected ==
  /\ \E request \in inFlight :
       /\ inFlight' = inFlight \ {request}
       /\ Reduce([type |-> "auth/login/rejected", requestId |-> request.requestId])
  /\ UNCHANGED <<dispatched, sliceRest>>

SliceNext ==
  \/ HandleLogin
  \/ LoginFulfilled
  \/ LoginRejected

SliceSpec == SliceInit /\ [][SliceNext]_allVars

\* C23: isLoading is true in every state in which at least one dispatched
\* loginThunk is still in flight, and false when none is, for every
\* interleaving of overlapping login attempts.
C23_LoadingIffInFlight == isLoading <=> inFlight # {}

\* two logins overlap, the first has been fulfilled, the second is still in
\* flight, and isLoading is false
C23_Witness ==
  /\ dispatched = 2
  /\ inFlight = {[requestId |-> 2, arg |-> "bob"]}
  /\ lastAction.type = "auth/login/fulfilled"
  /\ lastAction.requestId = 1
  /\ ~isLoading

\* what the code does: isLoading tells whether the last action was a pending
\* one, and it is right whenever at most one login is in flight at a time
LoadingObserved ==
  /\ isLoading <=> lastAction.type = "auth/login/pending"
  /\ inFlight = {} => ~isLoading
  /\ (isLoading # (inFlight # {})) => dispatched >= 2

\* ------------------------------------------------------------------------
\* request (src/src/services/fetch/http-provider.ts) against the clock, the
\* runtime's timer and a server that may answer at any time or never.
\* ------------------------------------------------------------------------

TimedOut == [kind |-> "rejected", error |-> "Request timed out!"]

\* requestOptions: `signal: controller.signal, ...config`; a signal in the
\* caller's config replaces the controller's
SignalOf(config) == IF config.signal THEN "caller" ELSE "controller"

\* the catch block: an error named AbortError is reported as a timeout
Caught(error) == IF error.name = "AbortError" THEN TimedOut ELSE [kind |-> "rejected", error |-> error.name]

HttpInit ==
  /\ ValidatorIdle
  /\ now = 0
  /\ DebounceIdle
  /\ ThrottleIdle
  /\ UtilIdle
  /\ AuthIdle
  /\ SliceIdle
  /\ HttpIdle
  /\ EmitterIdle

\* request({ ..., config, timeout }): the timer is armed and fetch is awaited;
\* one request is followed at a time, until it has settled and its timer is
\* no longer pending
Request ==
  /\ reqPhase \in {"idle", "settled"}
  /\ reqTimer # "armed"
  /\ \E timeout \in 1..MaxMs, config \in [signal : BOOLEAN] :
       /\ reqTimeout' = timeout
       /\ reqSignal' = SignalOf(config)
  /\ reqPhase' = "fetching"
  /\ reqTimer' = "armed"
  /\ reqStart' = now
  /\ reqOutcome' = NoSettlement
  /\ UNCHANGED <<now, httpRest>>

\* the response arrives: clearTimeout(timeoutId), then response.json()
ResponseArrives ==
  /\ reqPhase = "fetching"
  /\ reqPhase' = "reading"
  /\ reqTimer' = IF reqTimer = "armed" THEN "cleared" ELSE reqTimer
  /\ UNCHANGED <<reqTimeout, reqSignal, reqStart, reqOutcome, now, httpRest>>

\* fetch rejects (network failure): the catch block rethrows
FetchRejects ==
  /\ reqPhase = "fetching"
  /\ reqPhase' = "settled"
  /\ reqOutcome' = Caught([name |-> "TypeError"])
  /\ UNCHANGED <<reqTimeout, reqSignal, reqTimer, reqStart, now, httpRest>>

\* the caller aborts the signal it supplied: fetch rejects with AbortError
CallerAborts ==
  /\ reqPhase = "fetching"
  /\ reqSignal = "caller"
  /\ reqPhase' = "settled"
  /\ reqOutcome' = Caught([name |-> "AbortError"])
  /\ UNCHANGED <<reqTimeout, reqSignal, reqTimer, reqStart, now, httpRest>>

\* response.json() settles: the body of an ok response is returned, that of
\* a non-ok response is thrown, a body that is not JSON raises SyntaxError
BodyRead ==
  /\ reqPhase = "reading"
  /\ reqPhase' = "settled"
  /\ \E result \in {"json", "not-ok", "SyntaxError"} :
       reqOutcome' = IF result = "json" THEN [kind |-> "resolved"] ELSE Caught([name |-> result])
  /\ UNCHANGED <<reqTimeout, reqSignal, reqTimer, reqStart, now, httpRest>>

\* the timer fires: controller.abort(); a fetch that listens to the
\* controller's signal rejects with AbortError
TimerFires ==
  /\ reqTimer = "armed"
  /\ now >= reqStart + reqTimeout
  /\ reqTimer' = "fired"
  /\ IF reqPhase = "fetching" /\ reqSignal = "controller"
     THEN reqPhase' = "settled" /\ reqOutcome' = Caught([name |-> "AbortError"])
     ELSE UNCHANGED <<reqPhase, reqOutcome>>
  /\ UNCHANGED <<reqTimeout, reqSignal, reqStart, now, httpRest>>

\* time passes; a due timer fires before it does
HttpTick ==
  /\ now < MaxTime
  /\ ~(reqTimer = "armed" /\ now >= reqStart + reqTimeout)
  /\ now' = now + 1
  /\ UNCHANGED <<httpVars, httpRest>>

HttpNext ==
  \/ Request
  \/ ResponseArrives
  \/ FetchRejects
  \/ CallerAborts
  \/ BodyRead
  \/ TimerFires
  \/ HttpTick

HttpSpec == HttpInit /\ [][HttpNext]_allVars

Pending == reqPhase \in {"fetching", "reading"}

\* C24: if no response arrives within timeout, the fetch is aborted and
\* request() rejects with "Request timed out!", whatever headers and config
\* the caller supplied; a request never stays pending longer than timeout.
C24_NeverPendingBeyondTimeout ==
  /\ Pending => now <= reqStart + reqTimeout
  /\ ~(reqPhase = "fetching" /\ reqTimer = "fired")

\* the caller supplied a signal, no response came, the timer has fired and
\* the request is still pending after its timeout
C24_Witness ==
  /\ reqPhase = "fetching"
  /\ reqSignal = "caller"
  /\ reqTimer = "fired"
  /\ now > reqStart + reqTimeout

\* what the code does: the timeout bounds the wait for the response only when
\* fetch was given the controller's signal, and never the reading of the body
TimeoutObserved ==
  /\ (reqPhase = "fetching" /\ reqSignal = "controller") => (now <= reqStart + reqTimeout /\ reqTimer = "armed")
  /\ (reqPhase = "settled" /\ reqOutcome = TimedOut /\ reqSignal = "controller") => reqTimer = "fired"

\* C25: on every path by which request() settles, the timer it armed has
\* been cleared or has already fired: no abort callback of a settled request
\* remains scheduled.
C25_NoTimerLeftWhenSettled == reqPhase = "settled" => reqTimer \in {"cleared", "fired"}

\* fetch was rejected by a network failure and the timer is still armed
C25_Witness ==
  /\ reqPhase = "settled"
  /\ reqOutcome = [kind |-> "rejected", error |-> "TypeError"]
  /\ reqTimer = "armed"
  /\ now < reqStart + reqTimeout

\* what the code does: the timer is cleared exactly when the response
\* arrived; a request that settled without a response leaves it armed until
\* it fires
TimerObserved ==
  /\ reqPhase = "reading" => reqTimer = IF reqSignal = "controller" THEN "cleared" ELSE reqTimer
  /\ reqPhase = "reading" => reqTimer \in {"cleared", "fired"}
  /\ (reqPhase = "settled" /\ reqOutcome.kind = "resolved") => reqTimer \in {"cleared", "fired"}
  /\ (reqPhase = "settled" /\ reqTimer = "armed") => reqOutcome \in {Caught([name |-> "TypeError"]), TimedOut}

\* ------------------------------------------------------------------------
\* FormEventEmitter (src/unnamed/part_006). Callbacks are compared by
\* identity; `registered` follows each call of on() on its own, so that what
\* an unsubscribe function removes can be told from what it should.
\* ------------------------------------------------------------------------

MaxSubs == 3
Callbacks == {"f", "g"}

\* on(event, callback): the callback is pushed
on(table, event, callback) == [table EXCEPT ![event] = Append(@, callback)]

\* off(event, callback): filter((cb) => cb !== callback)
off(table, event, callback) == [table EXCEPT ![event] = SelectSeq(@, LAMBDA cb : cb # callback)]

EmitterInit ==
  /\ ValidatorIdle
  /\ now = 0
  /\ DebounceIdle
  /\ ThrottleIdle
  /\ UtilIdle
  /\ AuthIdle
  /\ SliceIdle
  /\ HttpIdle
  /\ EmitterIdle

On ==
  /\ subscribed < MaxSubs
  /\ \E event \in EventNames, callback \in Callbacks :
       /\ events' = on(events, event, callback)
       /\ handles' = handles \cup {[id |-> subscribed + 1, event |-> event, callback |-> callback]}
       /\ registered' = Append(registered, [id |-> subscribed + 1, event |-> event, callback |-> callback])
  /\ subscribed' = subscribed + 1
  /\ emitted' = NoEmit
  /\ UNCHANGED emitterRest

\* the function returned by on(): () => this.off(event, callback)
Unsubscribe ==
  /\ \E handle \in handles :
       /\ events' = off(events, handle.event, handle.callback)
       /\ handles' = handles \ {handle}
       /\ registered' = SelectSeq(registered, LAMBDA r : r.id # handle.id)
  /\ emitted' = NoEmit
  /\ UNCHANGED <<subscribed, emitterRest>>

\* emit(event): every callback of the event is invoked, in order
Emit ==
  /\ \E event \in EventNames : emitted' = [event |-> event, invoked |-> events[event]]
  /\ UNCHANGED <<events, handles, registered, subscribed, emitterRest>>

EmitterNext ==
  \/ On
  \/ Unsubscribe
  \/ Emit

EmitterSpec == EmitterInit /\ [][EmitterNext]_allVars

\* the callbacks of the registrations of an event that were not unsubscribed
RECURSIVE CallbacksOf(_, _)
CallbacksOf(registrations, event) == IF registrations = <<>> THEN <<>> ELSE (IF registrations[1].event = event THEN <<registrations[1].callback>> ELSE <<>>) \o CallbacksOf(Tail(registrations), event)

\* C26: the unsubscribe function returned by on(event, cb) removes exactly
\* the registration that call created: every other registration of the
\* event, a second registration of the same cb included, is still invoked by
\* a later emit(event), and the other events are unchanged.
C26_UnsubscribeRemovesOneRegistration ==
  /\ \A event \in EventNames : events[event] = CallbacksOf(registered, event)
  /\ emitted # NoEmit => emitted.invoked = CallbacksOf(registered, emitted.event)

\* f was registered twice for city, the first registration was unsubscribed,
\* and emit("city") invoked nothing
C26_Witness ==
  /\ subscribed = 2
  /\ registered = <<[id |-> 2, event |-> "city", callback |-> "f"]>>
  /\ handles = {[id |-> 2, event |-> "city", callback |-> "f"]}
  /\ emitted = [event |-> "city", invoked |-> <<>>]

\* what the code does: unsubscribing removes every registration of the
\* callback for the event, so an event holds no callback but those of its
\* registrations, and may hold fewer
UnsubscribeObserved ==
  \A event \in EventNames :
    /\ \A i \in 1..Len(events[event]) : \E j \in 1..Len(registered) : registered[j].event = event /\ registered[j].callback = events[event][i]
    /\ Len(events[event]) <= Len(CallbacksOf(registered, event))

====
